---- MODULE Spec2Model ----
(***************************************************************************)
(* A model of the mesh pipeline of MeshedLogo (lib/mesh_generator.py):     *)
(* MeshGenerator.generate with its interior point sampler, boundary        *)
(* refinement and Delaunay triangle filtering, and MeshGenerator.refine_mesh.*)
(*                                                                         *)
(* Coordinates.  The program computes with floating point pixel            *)
(* coordinates.  The model computes with exact rationals: a coordinate v   *)
(* of the model stands for v / Scale pixels.  Scale is chosen so that      *)
(* every mean, interpolation and centroid the model can reach is an        *)
(* integer number of 1/Scale pixels.                                       *)
(***************************************************************************)
EXTENDS Integers, Sequences, FiniteSets, TLC

\* ------------------------------------------------------------------ bounds
\* Number of refine_mesh passes applied to one generated mesh.
MaxPasses == 2
\* Largest num_interior_points handed to generate.
MaxTarget == 2

RECURSIVE Pow3(_)
Pow3(n) == IF n = 0 THEN 1 ELSE 3 * Pow3(n - 1)

\* One pixel.  Sample candidates lie on thirds of a pixel, boundary refinement
\* divides them by 2 or the boundary's integer pixels by 3, the triangle
\* filter and every refine pass divide by 3 (ExactArithmetic checks it).
Scale == 2 * Pow3(MaxPasses + 1)
\* One third of a pixel.
Third == Scale \div 3

\* Python's None and a present value: an optional value is a sequence of no
\* element or of one.
None == <<>>
Some(v) == <<v>>
Get(o) == o[1]

\* --------------------------------------------------------------- arithmetic
Abs(x) == IF x < 0 THEN -x ELSE x
Sign(x) == IF x < 0 THEN -1 ELSE IF x > 0 THEN 1 ELSE 0

RECURSIVE Gcd(_, _)
Gcd(a, b) == IF b = 0 THEN a ELSE Gcd(b, a % b)

Range(s) == {s[i] : i \in 1..Len(s)}

\* A pixel position (x, y) as a point of the model.
Px(x, y) == <<x * Scale, y * Scale>>

\* np.mean(triangle_points, axis=0): the centroid of three points.
Centroid(p1, p2, p3) ==
    <<(p1[1] + p2[1] + p3[1]) \div 3, (p1[2] + p2[2] + p3[2]) \div 3>>

\* Twice the area of the triangle p1 p2 p3, in (1/Scale pixel)^2:
\* abs((p2x - p1x)(p3y - p1y) - (p3x - p1x)(p2y - p1y)).
Area2(p1, p2, p3) ==
    Abs((p2[1] - p1[1]) * (p3[2] - p1[2]) - (p3[1] - p1[1]) * (p2[2] - p1[2]))

\* max_area (in square pixels) in the unit of Area2.
AreaLimit2(max_area) == 2 * max_area * Scale * Scale

\* _get_bounding_box: (x_min, y_min, x_max, y_max) of a point sequence.
MinOf(S) == CHOOSE m \in S : \A x \in S : m <= x
MaxOf(S) == CHOOSE m \in S : \A x \in S : m >= x
get_bounding_box(pts) ==
    [x_min |-> MinOf({p[1] : p \in Range(pts)}),
     y_min |-> MinOf({p[2] : p \in Range(pts)}),
     x_max |-> MaxOf({p[1] : p \in Range(pts)}),
     y_max |-> MaxOf({p[2] : p \in Range(pts)})]

\* matplotlib Path(poly).contains_point(p): the crossing test over the edges
\* of the implicitly closed polygon.  An edge v0 -> v1 toggles the flag when
\* its ends are on opposite sides of the horizontal through p and it meets
\* the ray from p towards +x.  A path of fewer than 3 vertices holds no point
\* (the library returns early for it).
EdgeToggles(v0, v1, p) ==
    LET yflag0 == v0[2] >= p[2]
        yflag1 == v1[2] >= p[2]
    IN  /\ yflag0 # yflag1
        /\ (((v1[2] - p[2]) * (v0[1] - v1[1]) >= (v1[1] - p[1]) * (v0[2] - v1[2]))
              <=> yflag1)

contains_point(poly, p) ==
    LET n == Len(poly)
        toggles == {i \in 1..n : EdgeToggles(poly[i], poly[(i % n) + 1], p)}
    IN  n >= 3 /\ Cardinality(toggles) % 2 = 1

\* ------------------------------------------------- scipy.spatial.Delaunay
\* Delaunay(points) is the library's planar Delaunay triangulation.  The model
\* computes it from its definition: the triangles over the distinct input
\* locations whose circumcircle has no input point strictly inside.  Where four
\* or more points are cocircular the library may return any triangulation of
\* them, and of several input points at one location it uses any one: both are
\* choices of the model.  All-collinear input makes the library fail.

\* The coordinates divided by their common divisor (the triangulation does not
\* depend on the unit), which keeps the determinants small.
RECURSIVE GcdOfSet(_)
GcdOfSet(S) ==
    IF S = {} THEN 0
    ELSE LET x == CHOOSE y \in S : TRUE IN Gcd(Abs(x), GcdOfSet(S \ {x}))

Normalized(pts) ==
    LET g == GcdOfSet({p[1] : p \in Range(pts)} \cup {p[2] : p \in Range(pts)})
        d == IF g = 0 THEN 1 ELSE g
    IN  [i \in 1..Len(pts) |-> <<pts[i][1] \div d, pts[i][2] \div d>>]

\* > 0 when p, q, r turn counterclockwise, 0 when they are collinear.
Orient(p, q, r) ==
    (q[1] - p[1]) * (r[2] - p[2]) - (r[1] - p[1]) * (q[2] - p[2])

\* d lies strictly inside the circle through a, b, c.
InCircle(a, b, c, d) ==
    LET ax == a[1] - d[1]  ay == a[2] - d[2]
        bx == b[1] - d[1]  by == b[2] - d[2]
        cx == c[1] - d[1]  cy == c[2] - d[2]
        a2 == ax * ax + ay * ay
        b2 == bx * bx + by * by
        c2 == cx * cx + cy * cy
        det == ax * (by * c2 - b2 * cy) - ay * (bx * c2 - b2 * cx)
               + a2 * (bx * cy - by * cx)
    IN  Sign(det) * Sign(Orient(a, b, c)) > 0

\* The segments a b and c d cross in a point interior to both.
ProperCross(a, b, c, d) ==
    /\ Sign(Orient(a, b, c)) * Sign(Orient(a, b, d)) < 0
    /\ Sign(Orient(c, d, a)) * Sign(Orient(c, d, b)) < 0

TriEdges(t) == {<<t[1], t[2]>>, <<t[2], t[3]>>, <<t[3], t[1]>>}

\* Two triangles (index triples, 1-based into q) with crossing edges.
TrisCross(q, s, t) ==
    \E e \in TriEdges(s), f \in TriEdges(t) :
        ProperCross(q[e[1]], q[e[2]], q[f[1]], q[f[2]])

\* The choices of one input index for every distinct location.
RECURSIVE RepresentativesFrom(_, _)
RepresentativesFrom(q, i) ==
    IF i > Len(q) THEN {{}}
    ELSE IF \E j \in 1..(i - 1) : q[j] = q[i]
         THEN RepresentativesFrom(q, i + 1)
         ELSE {R \cup {g} : R \in RepresentativesFrom(q, i + 1),
                             g \in {j \in i..Len(q) : q[j] = q[i]}}

Representatives(q) == RepresentativesFrom(q, 1)

\* The triangles over R with an empty circumcircle.
EmptyCircleTris(q, R) ==
    LET ordered == UNION {UNION {{<<i, j, k>> : k \in {k \in R : k > j}} :
                                    j \in {j \in R : j > i}} : i \in R}
    IN  {t \in ordered :
            /\ Orient(q[t[1]], q[t[2]], q[t[3]]) # 0
            /\ \A l \in 1..Len(q) : ~InCircle(q[t[1]], q[t[2]], q[t[3]], q[l])}

\* The maximal crossing-free subsets of a set of triangles: with a triangle t,
\* a maximal subset of those that do not cross t; without it, a maximal subset
\* of the others that holds a triangle crossing t.
RECURSIVE MaximalFree(_, _)
MaximalFree(q, T) ==
    IF T = {} THEN {{}}
    ELSE LET t == CHOOSE x \in T : TRUE
             crossing == {s \in T : TrisCross(q, s, t)}
         IN  {S \cup {t} : S \in MaximalFree(q, T \ ({t} \cup crossing))}
             \cup {S \in MaximalFree(q, T \ {t}) : S \cap crossing # {}}

\* d lies on the circle through a, b, c.
OnCircle(a, b, c, d) ==
    LET ax == a[1] - d[1]  ay == a[2] - d[2]
        bx == b[1] - d[1]  by == b[2] - d[2]
        cx == c[1] - d[1]  cy == c[2] - d[2]
        a2 == ax * ax + ay * ay
        b2 == bx * bx + by * by
        c2 == cx * cx + cy * cy
    IN  ax * (by * c2 - b2 * cy) - ay * (bx * c2 - b2 * cx)
            + a2 * (bx * cy - by * cx) = 0

\* The triangulations made of them: the triangles with no fourth point on
\* their circle, with a maximal crossing-free choice among the rest.
TriangulationsOver(q, R) ==
    LET cand == EmptyCircleTris(q, R)
        sure == {t \in cand : \A l \in R \ {t[1], t[2], t[3]} :
                    ~OnCircle(q[t[1]], q[t[2]], q[t[3]], q[l])}
    IN  {sure \cup S : S \in MaximalFree(q, cand \ sure)}

\* Index triples in the program's 0-based numbering, in a fixed order.
TriLess(s, t) ==
    \/ s[1] < t[1]
    \/ s[1] = t[1] /\ s[2] < t[2]
    \/ s[1] = t[1] /\ s[2] = t[2] /\ s[3] < t[3]

RECURSIVE SortTris(_)
SortTris(T) ==
    IF T = {} THEN <<>>
    ELSE LET m == CHOOSE t \in T : \A s \in T \ {t} : TriLess(t, s)
         IN  <<m>> \o SortTris(T \ {m})

ZeroBased(T) == {<<t[1] - 1, t[2] - 1, t[3] - 1>> : t \in T}

\* The simplices arrays the library may return for these points; the empty
\* set when it raises QhullError (no three points off a line).
Delaunay(pts) ==
    LET q == Normalized(pts)
        all == UNION {TriangulationsOver(q, R) : R \in Representatives(q)}
    IN  {SortTris(ZeroBased(T)) : T \in all \ {{}}}

\* ---------------------------------------------------------------- MeshData
\* MeshData(points, triangles, num_vertices, num_triangles); triangles hold
\* 0-based indices into points.
MeshData(pts, tris) ==
    [points |-> pts, triangles |-> tris,
     num_vertices |-> Len(pts), num_triangles |-> Len(tris)]

\* mesh.points[i] for a 0-based index i.
PointAt(pts, i) == pts[i + 1]

\* The area test with >= in the place of >.
OversizedOrEqual(pts, tri, max_area) ==
    Area2(PointAt(pts, tri[1]), PointAt(pts, tri[2]), PointAt(pts, tri[3]))
        >= AreaLimit2(max_area)

\* The area test of refine_mesh: area > max_area.
Oversized(pts, tri, max_area) ==
    Area2(PointAt(pts, tri[1]), PointAt(pts, tri[2]), PointAt(pts, tri[3]))
        > AreaLimit2(max_area)

\* The index taken as if the centroid were appended already, counting from 1.
NewIndexOneBased(points_list) == Len(points_list) + 1

\* new_idx = len(points_list)
NewIndex(points_list) == Len(points_list)

\* The fan short of its third triangle.
FanOfTwo(tri_indices, new_idx) ==
    << <<tri_indices[1], tri_indices[2], new_idx>>,
       <<tri_indices[2], tri_indices[3], new_idx>> >>

\* The three triangles that replace an oversized triangle.
Fan(tri_indices, new_idx) ==
    << <<tri_indices[1], tri_indices[2], new_idx>>,
       <<tri_indices[2], tri_indices[3], new_idx>>,
       <<tri_indices[3], tri_indices[1], new_idx>> >>

\* The loop of refine_mesh from triangle number k on, over the input mesh's
\* points and triangles: acc holds points_list and triangles_list so far.
RECURSIVE RefineLoop(_, _, _, _)
RefineLoop(mesh, max_area, k, acc) ==
    IF k > Len(mesh.triangles) THEN acc
    ELSE LET tri_indices == mesh.triangles[k]
             p1 == PointAt(mesh.points, tri_indices[1])
             p2 == PointAt(mesh.points, tri_indices[2])
             p3 == PointAt(mesh.points, tri_indices[3])
             new_idx == NewIndex(acc.points_list)
         IN  IF Oversized(mesh.points, tri_indices, max_area)
             THEN RefineLoop(mesh, max_area, k + 1,
                    [points_list |-> Append(acc.points_list, Centroid(p1, p2, p3)),
                     triangles_list |-> acc.triangles_list \o
                                        Fan(tri_indices, new_idx)])
             ELSE RefineLoop(mesh, max_area, k + 1,
                    [points_list |-> acc.points_list,
                     triangles_list |-> Append(acc.triangles_list, tri_indices)])

\* refine_mesh testing the triangles it created once more in the same call.
refine_mesh_recheck(mesh, max_area) ==
    LET first == RefineLoop(mesh, max_area, 1,
                            [points_list |-> mesh.points, triangles_list |-> <<>>])
        again == RefineLoop(MeshData(first.points_list, first.triangles_list),
                            max_area, 1,
                            [points_list |-> first.points_list,
                             triangles_list |-> <<>>])
    IN  [input |-> mesh,
         result |-> MeshData(again.points_list, again.triangles_list)]

\* refine_mesh building its result on the input's points in the place of
\* points_list.
refine_mesh_old_points(mesh, max_area) ==
    LET out == RefineLoop(mesh, max_area, 1,
                          [points_list |-> mesh.points, triangles_list |-> <<>>])
    IN  [input |-> mesh,
         result |-> MeshData(mesh.points, out.triangles_list)]

\* refine_mesh appending to the input's own point list (no copy).
refine_mesh_alias(mesh, max_area) ==
    LET out == RefineLoop(mesh, max_area, 1,
                          [points_list |-> mesh.points, triangles_list |-> <<>>])
    IN  [input |-> [mesh EXCEPT !.points = out.points_list],
         result |-> MeshData(out.points_list, out.triangles_list)]

\* refine_mesh(mesh, max_area): the input mesh as the call leaves it, and the
\* mesh it returns.  points_list starts as a copy (mesh.points.tolist()).
refine_mesh(mesh, max_area) ==
    LET out == RefineLoop(mesh, max_area, 1,
                          [points_list |-> mesh.points, triangles_list |-> <<>>])
    IN  [input |-> mesh,
         result |-> MeshData(out.points_list, out.triangles_list)]

\* ------------------------------------------------ _delaunay_triangulation
\* all() in the place of any().
InHoleAll(hole_paths, centroid) ==
    \A h \in Range(hole_paths) : contains_point(h, centroid)

\* any(hole_path.contains_point(centroid) for hole_path in hole_paths)
InHole(hole_paths, centroid) ==
    \E h \in Range(hole_paths) : contains_point(h, centroid)

\* The triangles of simplices whose centroid is in no hole, in order.
RECURSIVE ValidTriangles(_, _, _, _)
ValidTriangles(pts, simplices, hole_paths, k) ==
    IF k > Len(simplices) THEN <<>>
    ELSE LET t == simplices[k]
             centroid == Centroid(PointAt(pts, t[1]), PointAt(pts, t[2]),
                                  PointAt(pts, t[3]))
             in_hole == InHole(hole_paths, centroid)
             rest == ValidTriangles(pts, simplices, hole_paths, k + 1)
         IN  IF ~in_hole THEN <<t>> \o rest ELSE rest

\* "if holes and len(holes) > 0": a non-empty list of holes.
HasHoles(holes) == holes # None /\ Len(Get(holes)) > 0

\* The filter without its fall back to the unfiltered triangles.
FilterTrianglesNoFallback(pts, simplices, holes) ==
    IF HasHoles(holes)
    THEN ValidTriangles(pts, simplices, Get(holes), 1)
    ELSE simplices

\* The triangles kept of the library's simplices (lines 392-410).
FilterTriangles(pts, simplices, holes) ==
    IF HasHoles(holes)
    THEN LET valid_triangles == ValidTriangles(pts, simplices, Get(holes), 1)
         IN  IF Len(valid_triangles) > 0 THEN valid_triangles ELSE simplices
    ELSE simplices

delaunay_triangulation(pts, simplices, holes) ==
    MeshData(pts, FilterTriangles(pts, simplices, holes))

\* -------------------------------------------------------- _refine_boundary
\* The points appended for the edge from points[i] (1-based) to its cyclic
\* successor: factor - 1 interpolated points, then the successor.
EdgePoints(pts, factor, i) ==
    LET p1 == pts[i]
        p2 == pts[(i % Len(pts)) + 1]
    IN  [j \in 1..(IF factor >= 1 THEN factor ELSE 1) |->
            IF j < factor
            THEN <<((factor - j) * p1[1] + j * p2[1]) \div factor,
                   ((factor - j) * p1[2] + j * p2[2]) \div factor>>
            ELSE p2]

RECURSIVE RefineEdges(_, _, _)
RefineEdges(pts, factor, i) ==
    IF i > Len(pts) THEN <<>>
    ELSE EdgePoints(pts, factor, i) \o RefineEdges(pts, factor, i + 1)

\* The refinement without its leading copy of the first point.
refine_boundary_open(pts, factor) == RefineEdges(pts, factor, 1)

refine_boundary(pts, factor) == <<pts[1]>> \o RefineEdges(pts, factor, 1)

\* ---------------------------------------------------- _add_interior_points
\* max_attempts = num_points * 20
AttemptFactor == 20

\* int(round(v)): Python rounds to the nearest integer, halves to the even one.
Round(v) ==
    LET f == v \div Scale
        r == v % Scale
    IN  IF 2 * r < Scale THEN f
        ELSE IF 2 * r > Scale THEN f + 1
        ELSE IF f % 2 = 0 THEN f ELSE f + 1

\* A binary image: shape = (rows, columns), zeros = the (row, column) pairs of
\* the pixels whose value is 0 (the character); every other pixel is 1.
Image(rows, cols, zeros) == [shape |-> <<rows, cols>>, zeros |-> zeros]

\* The pixel test with rows and columns exchanged.
ImageAcceptsTransposed(character_image, x, y) ==
    LET ix == Round(x)
        iy == Round(y)
    IN  /\ 0 <= ix /\ ix < character_image.shape[1]
        /\ 0 <= iy /\ iy < character_image.shape[2]
        /\ <<ix, iy>> \in character_image.zeros

\* The pixel test of lines 467-472.
ImageAccepts(character_image, x, y) ==
    LET ix == Round(x)
        iy == Round(y)
    IN  /\ 0 <= ix /\ ix < character_image.shape[2]
        /\ 0 <= iy /\ iy < character_image.shape[1]
        /\ <<iy, ix>> \in character_image.zeros

\* The path test of lines 475-478.
PathAccepts(boundary_path, hole_paths, x, y) ==
    /\ contains_point(boundary_path, <<x, y>>)
    /\ ~\E h \in Range(hole_paths) : contains_point(h, <<x, y>>)

\* The locals _add_interior_points sets up before its loop (lines 440-456).
SamplerSetup(boundary_points, num_points, holes, boundary, character_image) ==
    LET test_boundary == IF boundary # None THEN Get(boundary) ELSE boundary_points
        use_image_testing == character_image # None
    IN  [boundary_points |-> boundary_points,
         num_points |-> num_points,
         test_boundary |-> test_boundary,
         box |-> get_bounding_box(test_boundary),
         use_image_testing |-> use_image_testing,
         character_image |-> character_image,
         boundary_path |-> IF use_image_testing THEN None ELSE Some(test_boundary),
         hole_paths |-> IF use_image_testing THEN None
                        ELSE IF HasHoles(holes) THEN holes ELSE Some(<<>>),
         max_attempts |-> num_points * AttemptFactor]

\* The membership test of one candidate.
Accepts(sampler, x, y) ==
    IF sampler.use_image_testing
    THEN ImageAccepts(Get(sampler.character_image), x, y)
    ELSE PathAccepts(Get(sampler.boundary_path), Get(sampler.hole_paths), x, y)

\* The loop condition without its attempt budget.
LoopConditionNoBudget(sampler, accepted, tried) ==
    accepted < sampler.num_points

\* The loop condition of line 458.
LoopCondition(sampler, accepted, tried) ==
    accepted < sampler.num_points /\ tried < sampler.max_attempts

\* The return value without the boundary: the accepted points alone.
CombinedInteriorOnly(boundary_points, interior) == interior

\* The value _add_interior_points returns (lines 482-486).
Combined(boundary_points, interior) ==
    IF Len(interior) = 0 THEN boundary_points ELSE boundary_points \o interior

\* The values random.uniform(lo, hi) takes in the model: the two ends and,
\* when it lies between them, the position 20/3 pixels.
SampleLattice == {20 * Third}
Uniform(lo, hi) == {lo, hi} \cup {v \in SampleLattice : lo <= v /\ v <= hi}

\* ------------------------------------- _generate_interior_points_poisson
\* int(np.sqrt(v)) for v >= 0: the integer part of the square root.
RECURSIVE IntSqrtFrom(_, _)
IntSqrtFrom(v, r) == IF (r + 1) * (r + 1) > v THEN r ELSE IntSqrtFrom(v, r + 1)
IntSqrt(v) == IntSqrtFrom(v, 0)

\* The grid sized for the target alone.
GridSizeRootTarget(num_points) == IntSqrt(num_points)

\* grid_size = int(np.sqrt(num_points * 3))
GridSize(num_points) == IntSqrt(num_points * 3)

\* np.linspace(lo, hi, n): n evenly spaced values from lo to hi, lo alone
\* when n = 1, none when n = 0.
linspace(lo, hi, n) ==
    [k \in 1..n |-> IF n = 1 THEN lo ELSE lo + ((k - 1) * (hi - lo)) \div (n - 1)]

\* The values (hi - lo) / grid_size * 0.3 * (random.random() - 0.5) takes in
\* the model: random.random() is in [0, 1), so the jitter is in
\* [-0.15, 0.15) cells; 0 and, when they are in that range, 2/3 of a pixel
\* to either side.
JitterLattice == {-2 * Third, 0, 2 * Third}
Jitter(lo, hi, grid_size) ==
    {j \in JitterLattice :
        \/ j = 0
        \/ /\ -15 * (hi - lo) <= 100 * grid_size * j
           /\ 100 * grid_size * j < 15 * (hi - lo)}

\* The locals _generate_interior_points_poisson sets up before its loops
\* (lines 504-516).
GridSetup(boundary_points, num_points, holes, boundary) ==
    LET test_boundary == IF boundary # None THEN Get(boundary) ELSE boundary_points
        box == get_bounding_box(test_boundary)
        grid_size == GridSize(num_points)
    IN  [boundary_points |-> boundary_points,
         num_points |-> num_points,
         test_boundary |-> test_boundary,
         box |-> box,
         boundary_path |-> Some(test_boundary),
         hole_paths |-> IF HasHoles(holes) THEN holes ELSE Some(<<>>),
         grid_size |-> grid_size,
         x_steps |-> linspace(box.x_min, box.x_max, grid_size),
         y_steps |-> linspace(box.y_min, box.y_max, grid_size)]

\* The loops go on: grid points are left and the target is not met (the two
\* breaks of lines 531-534 leave both loops once it is).
GridCondition(grid, accepted, visited) ==
    visited < grid.grid_size * grid.grid_size /\ accepted < grid.num_points

\* The value _generate_interior_points_poisson returns (lines 536-540).
CombinedGrid(boundary_points, interior, num_points) ==
    IF Len(interior) = 0 THEN boundary_points
    ELSE boundary_points \o
         SubSeq(interior, 1, IF num_points < Len(interior) THEN num_points
                             ELSE Len(interior))

\* ------------------------------------------------------------------ inputs
TwoPoints == <<Px(0, 0), Px(1, 1)>>
Collinear == <<Px(0, 0), Px(10, 0), Px(20, 0)>>
Triangle100 == <<Px(0, 0), Px(20, 0), Px(0, 10)>>
Square == <<Px(0, 0), Px(10, 0), Px(10, 10), Px(0, 10)>>
\* A concave quadrilateral: the triangle (0,0) (20,0) (10,20) with a notch.
Dart == <<Px(0, 0), Px(10, 5), Px(20, 0), Px(10, 20)>>
ShortPoints == {<<>>, TwoPoints}
LongPoints == {Collinear, Triangle100, Square, Dart}

\* The notch of Dart, a hole over everything, and one away from everything.
NotchHole == <<Px(0, 0), Px(20, 0), Px(10, 5)>>
BigHole == <<Px(-10, -10), Px(30, -10), Px(30, 30), Px(-10, 30)>>
FarHole == <<Px(22, 22), Px(30, 22), Px(30, 30)>>
HoleChoices == {None, Some(<<>>), Some(<<NotchHole>>), Some(<<BigHole>>),
                Some(<<NotchHole, FarHole>>)}

ZeroArea == <<Px(5, 5), Px(5, 5), Px(5, 5)>>
\* A boundary of 2 points.
Segment == <<Px(0, 0), Px(20, 10)>>
BoundaryChoices == {None, Some(ZeroArea)}
TestHoleChoices == {None, Some(<<BigHole>>)}

Blank == Image(21, 21, {})
Dots == Image(8, 14, {<<0, 0>>, <<7, 7>>, <<7, 0>>})
ImageChoices == {None, Some(Blank), Some(Dots)}

\* (boundary_refinement, refinement_factor)
RefinementChoices == {<<FALSE, 2>>, <<TRUE, 1>>, <<TRUE, 2>>, <<TRUE, 3>>}
MaxAreaChoices == {10, 50}

\* The arguments of one generate call.
Call(pts, sampling, refinement, hls) ==
    [points |-> pts,
     add_interior_points |-> sampling.add_interior_points,
     num_interior_points |-> sampling.num_interior_points,
     boundary_refinement |-> refinement[1],
     refinement_factor |-> refinement[2],
     holes |-> hls,
     boundary_for_testing |-> sampling.boundary_for_testing,
     holes_for_testing |-> sampling.holes_for_testing,
     character_image |-> sampling.character_image]

\* No sampling: the defaults of the sampling arguments.
NoSampling ==
    [add_interior_points |-> FALSE, num_interior_points |-> 20,
     boundary_for_testing |-> None, holes_for_testing |-> None,
     character_image |-> None]

SamplingChoices ==
    [add_interior_points : {TRUE}, num_interior_points : 0..MaxTarget,
     boundary_for_testing : BoundaryChoices, holes_for_testing : TestHoleChoices,
     character_image : ImageChoices]

\* Sampling with a boundary for testing of 2 points.
SegmentSampling ==
    [add_interior_points : {TRUE}, num_interior_points : 0..MaxTarget,
     boundary_for_testing : {Some(Segment)}, holes_for_testing : {None},
     character_image : ImageChoices]

\* The calls of the model: every choice of the other arguments with too few
\* points; every hole list and boundary refinement without sampling (the
\* square unrefined: its refined boundary has hundreds of triangulations);
\* sampling without holes and refinement, or with the notch as a hole and a
\* refinement by 2; sampling the triangle with a boundary for testing of 2
\* points.
Calls ==
    {Call(p, s, r, h) : p \in ShortPoints, s \in SamplingChoices \cup {NoSampling},
                        r \in RefinementChoices, h \in HoleChoices}
    \cup {Call(p, NoSampling, r, h) : p \in LongPoints \ {Square},
                                      r \in RefinementChoices, h \in HoleChoices}
    \cup {Call(Square, NoSampling, <<FALSE, 2>>, h) : h \in HoleChoices}
    \cup {Call(p, s, <<FALSE, 2>>, None) :
              p \in LongPoints \ {Square}, s \in SamplingChoices}
    \cup {Call(p, s, <<TRUE, 2>>, Some(<<NotchHole>>)) :
              p \in LongPoints \ {Square}, s \in SamplingChoices}
    \cup {Call(Triangle100, s, <<FALSE, 2>>, None) : s \in SegmentSampling}

\* The arguments of one generate_from_contour call; density is given in
\* hundredths.
ContourCall(pts, density, smooth, hls) ==
    [contour_points |-> pts, density |-> density, smooth_interior |-> smooth,
     holes |-> hls]

DensityChoices == {0, 25, 50, 75}

\* num_interior = int(area * density / 100), area the area of the bounding
\* box in square pixels (the contours of the model have integer pixel
\* coordinates).
NumInterior(c) ==
    LET bbox == get_bounding_box(c.contour_points)
        area == ((bbox.x_max - bbox.x_min) \div Scale)
                    * ((bbox.y_max - bbox.y_min) \div Scale)
    IN  (area * c.density) \div (100 * 100)

ContourCalls ==
    {c \in {ContourCall(p, d, s, h) :
                p \in {Segment, Triangle100, Dart}, d \in DensityChoices,
                s \in BOOLEAN, h \in {None, Some(<<NotchHole>>)}} :
        NumInterior(c) <= MaxTarget}

\* =========================================================== contours
\* lib/contour_extractor.py.  An image is a 2-D array of pixel values, here a
\* sequence of rows; pixel positions are (x, y) with x the column and y the
\* row, both from 0, in whole pixels.  Contour points are such positions.

Rows(img) == Len(img)
Cols(img) == IF Len(img) = 0 THEN 0 ELSE Len(img[1])
Positions(img) == {<<x, y>> : x \in 0..(Cols(img) - 1), y \in 0..(Rows(img) - 1)}

\* img[y, x]; 0 outside the image (the library pads the image with zeros).
PixelAt(img, p) ==
    IF /\ 0 <= p[1] /\ p[1] < Cols(img)
       /\ 0 <= p[2] /\ p[2] < Rows(img)
    THEN img[p[2] + 1][p[1] + 1] ELSE 0

RECURSIVE SumOf(_)
SumOf(S) == IF S = {} THEN 0
            ELSE LET p == CHOOSE q \in S : TRUE IN p[2] + SumOf(S \ {p})

\* The pixels paired with their values.
Valued(img) == {<<p, PixelAt(img, p)>> : p \in Positions(img)}

\* _binarize without the inversions: white stays white.
binarizeAsIs(img_array, threshold) ==
    LET scaled == MaxOf({0} \cup {v[2] : v \in Valued(img_array)}) <= 1
    IN  [y \in 1..Rows(img_array) |->
            [x \in 1..Cols(img_array) |->
                IF (IF scaled THEN img_array[y][x] * 255 ELSE img_array[y][x]) > threshold
                THEN 255 ELSE 0]]

\* _binarize with the mean deciding the inversion of every array.
binarizeByMean(img_array, threshold) ==
    LET maximum == MaxOf({0} \cup {v[2] : v \in Valued(img_array)})
        scaled == maximum <= 1
        bright(v) == IF scaled THEN v * 255 ELSE v
        count == Cardinality(Positions(img_array))
        inverted == SumOf(Valued(img_array)) * (IF scaled THEN 255 ELSE 1)
                        > 127 * count
        gray(v) == IF inverted THEN 255 - bright(v) ELSE bright(v)
    IN  [y \in 1..Rows(img_array) |->
            [x \in 1..Cols(img_array) |->
                IF gray(img_array[y][x]) > threshold THEN 255 ELSE 0]]

\* _binarize for a 2-D array with values in 0..255.  An array whose maximum
\* is at most 1 is scaled to 0..255 and inverted; any other is inverted when
\* its mean is above 127.  Then cv2.threshold(..., THRESH_BINARY): 255 where
\* the value is above threshold, else 0.
binarize(img_array, threshold) ==
    LET maximum == MaxOf({0} \cup {v[2] : v \in Valued(img_array)})
        scaled == maximum <= 1
        inverted == SumOf(Valued(img_array)) > 127 * Cardinality(Positions(img_array))
        gray(v) == IF scaled THEN 255 - v * 255
                   ELSE IF inverted THEN 255 - v ELSE v
    IN  [y \in 1..Rows(img_array) |->
            [x \in 1..Cols(img_array) |->
                IF gray(img_array[y][x]) > threshold THEN 255 ELSE 0]]

\* ------------------------------------------------------ cv2.findContours
\* The library follows the borders of a binary image (Suzuki and Abe's
\* border following): one outer border for every 8-connected component of
\* non-zero pixels, one hole border for every 4-connected component of zero
\* pixels that the frame of the image does not reach.

\* The 8 directions of the chain code, 0 = east, counting counter-clockwise
\* on the screen (y grows downwards).
CodeDeltas == << <<1, 0>>, <<1, -1>>, <<0, -1>>, <<-1, -1>>,
                 <<-1, 0>>, <<-1, 1>>, <<0, 1>>, <<1, 1>> >>

StepTo(p, s) == <<p[1] + CodeDeltas[(s % 8) + 1][1], p[2] + CodeDeltas[(s % 8) + 1][2]>>

Neighbours(p, connectivity) ==
    {StepTo(p, s) : s \in IF connectivity = 8 THEN 0..7 ELSE {0, 2, 4, 6}}

\* The pixels of within connected to region.
RECURSIVE FloodFrom(_, _, _, _)
FloodFrom(region, newest, within, connectivity) ==
    LET more == (UNION {Neighbours(p, connectivity) : p \in newest}
                    \cap within) \ region
    IN  IF more = {} THEN region
        ELSE FloodFrom(region \cup more, more, within, connectivity)

Flood(region, within, connectivity) ==
    FloodFrom(region, region, within, connectivity)

RECURSIVE Components(_, _)
Components(pixels, connectivity) ==
    IF pixels = {} THEN {}
    ELSE LET c == Flood({CHOOSE p \in pixels : TRUE}, pixels, connectivity)
         IN  {c} \cup Components(pixels \ c, connectivity)

\* The first pixel of a set in the order of the raster scan.
FirstInScan(pixels) ==
    CHOOSE p \in pixels :
        \A q \in pixels : p[2] < q[2] \/ (p[2] = q[2] /\ p[1] <= q[1])

NonZero(img) == {p \in Positions(img) : PixelAt(img, p) # 0}

\* The zero pixels of the image with a frame of zeros around it, and those
\* of them the frame reaches.
ZeroWithFrame(img) ==
    {<<x, y>> : x \in (-1)..Cols(img), y \in (-1)..Rows(img)} \ NonZero(img)

OuterBackground(img) == Flood({<<-1, -1>>}, ZeroWithFrame(img), 4)

\* The borders of the image, each by its starting pixel: an outer border
\* starts at the first pixel of its component, a hole border at the pixel to
\* the left of the first pixel of its hole.
Borders(img) ==
    {[start |-> FirstInScan(c), is_hole |-> FALSE] :
        c \in Components(NonZero(img), 8)}
    \cup {[start |-> StepTo(FirstInScan(h), 4), is_hole |-> TRUE] :
            h \in Components(ZeroWithFrame(img) \ OuterBackground(img), 4)}

\* The outer borders of the components that lie in no hole.
ExternalBorders(img) ==
    LET outer == OuterBackground(img)
    IN  {b \in Borders(img) : ~b.is_hole /\ StepTo(b.start, 4) \in outer}

\* The first non-zero neighbour of p looking clockwise from direction s, or
\* -1 when the search is back at s_end (an isolated pixel).
RECURSIVE FirstClockwise(_, _, _, _)
FirstClockwise(img, p, s, s_end) ==
    LET t == (s + 7) % 8
    IN  IF t = s_end THEN -1
        ELSE IF PixelAt(img, StepTo(p, t)) # 0 THEN t
        ELSE FirstClockwise(img, p, t, s_end)

\* The direction of the first non-zero neighbour of p counter-clockwise
\* after direction s_end.
NextDirection(img, p, s_end) ==
    LET k == CHOOSE k \in 1..8 :
                /\ PixelAt(img, StepTo(p, s_end + k)) # 0
                /\ \A j \in 1..(k - 1) : PixelAt(img, StepTo(p, s_end + j)) = 0
    IN  (s_end + k) % 8

\* The border following loop from pixel i3, with CHAIN_APPROX_SIMPLE: a
\* pixel is written when the direction changes there.  It ends when the
\* border is back at its first two pixels i0, i1.
RECURSIVE FollowBorder(_, _, _, _, _, _, _)
FollowBorder(img, i0, i1, i3, s_end, prev_s, written) ==
    LET s == NextDirection(img, i3, s_end)
        i4 == StepTo(i3, s)
        out == IF s # prev_s THEN Append(written, i3) ELSE written
    IN  IF i4 = i0 /\ i3 = i1 THEN out
        ELSE FollowBorder(img, i0, i1, i4, (s + 4) % 8, s, out)

\* The points of one border.
FetchContour(img, border) ==
    LET s_end == IF border.is_hole THEN 0 ELSE 4
        s == FirstClockwise(img, border.start, s_end, s_end)
    IN  IF s = -1 THEN <<border.start>>
        ELSE FollowBorder(img, border.start, StepTo(border.start, s),
                          border.start, s, (s + 4) % 8, <<>>)

\* The sequences that list the elements of a set once each.
RECURSIVE Orderings(_)
Orderings(S) ==
    IF S = {} THEN {<<>>}
    ELSE UNION {{<<x>> \o rest : rest \in Orderings(S \ {x})} : x \in S}

\* cv2.findContours(img, mode, CHAIN_APPROX_SIMPLE): the contours of the
\* borders the mode retrieves (RETR_TREE: all; RETR_EXTERNAL: the external
\* ones).  The order of the list is the library's; the model leaves it open.
findContours(img, mode) ==
    LET borders == IF mode = "RETR_TREE" THEN Borders(img) ELSE ExternalBorders(img)
    IN  {[i \in 1..Len(order) |-> FetchContour(img, order[i])] :
            order \in Orderings(borders)}

\* ------------------------------------------------------ cv2.approxPolyDP
\* The library's Douglas-Peucker approximation of a closed curve src with
\* tolerance epsilon (a whole number of pixels here).  Indices count from 0
\* and wrap around.
Dist2(p, q) == (p[1] - q[1]) * (p[1] - q[1]) + (p[2] - q[2]) * (p[2] - q[2])

SrcAt(src, i) == src[(i % Len(src)) + 1]

\* One of the three passes that look for two far apart points: the offset of
\* the first point farthest from src[start] (the offset before when all
\* points are at src[start]) and its squared distance.
Farthest(src, start, offset_before) ==
    LET count == Len(src)
        d(j) == Dist2(SrcAt(src, start + j), SrcAt(src, start))
        max_dist == MaxOf({0} \cup {d(j) : j \in 1..(count - 1)})
    IN  [offset |-> IF max_dist = 0 THEN offset_before
                    ELSE MinOf({j \in 1..(count - 1) : d(j) = max_dist}),
         max_dist |-> max_dist]

\* The cross product that measures the distance of src[k] from the chord
\* from src[a] to src[b].
ChordDist(src, a, b, k) ==
    LET dx == SrcAt(src, b)[1] - SrcAt(src, a)[1]
        dy == SrcAt(src, b)[2] - SrcAt(src, a)[2]
    IN  Abs((SrcAt(src, k)[2] - SrcAt(src, a)[2]) * dx
            - (SrcAt(src, k)[1] - SrcAt(src, a)[1]) * dy)

\* The recursive process on the slice from index a to index b: its start
\* point alone when the points between are within the tolerance of the
\* chord, else the slices before and after the first farthest point.
\* The recursive process with a tolerance one pixel wider.
RECURSIVE ApproxSliceLoose(_, _, _, _)
ApproxSliceLoose(src, a, b, eps2) ==
    LET count == Len(src)
        steps == ((b - a) + count) % count
        between == {(a + j) % count : j \in 1..(steps - 1)}
        max_dist == MaxOf({0} \cup {ChordDist(src, a, b, k) : k \in between})
        first == MinOf({j \in 1..(steps - 1) :
                          ChordDist(src, a, b, a + j) = max_dist})
        le_eps == max_dist * max_dist
                      <= (eps2 + 1) * Dist2(SrcAt(src, a), SrcAt(src, b))
    IN  IF between = {} \/ le_eps THEN <<SrcAt(src, a)>>
        ELSE ApproxSliceLoose(src, a, (a + first) % count, eps2)
             \o ApproxSliceLoose(src, (a + first) % count, b, eps2)

RECURSIVE ApproxSlice(_, _, _, _)
ApproxSlice(src, a, b, eps2) ==
    LET count == Len(src)
        steps == ((b - a) + count) % count
        between == {(a + j) % count : j \in 1..(steps - 1)}
        max_dist == MaxOf({0} \cup {ChordDist(src, a, b, k) : k \in between})
        first == MinOf({j \in 1..(steps - 1) :
                          ChordDist(src, a, b, a + j) = max_dist})
        le_eps == max_dist * max_dist <= eps2 * Dist2(SrcAt(src, a), SrcAt(src, b))
    IN  IF between = {} \/ le_eps THEN <<SrcAt(src, a)>>
        ELSE ApproxSlice(src, a, (a + first) % count, eps2)
             \o ApproxSlice(src, (a + first) % count, b, eps2)

\* The final clean-up: a point is dropped when it is within the tolerance
\* of the line through its neighbours, that line is neither horizontal nor
\* vertical, and the point lies between them.  The library works in place:
\* dst is read at pos and written at wpos.
RECURSIVE CleanUp(_, _, _)
CleanUp(c, count, eps2) ==
    IF ~(c.i < count /\ c.new_count > 2) THEN SubSeq(c.dst, 1, c.new_count)
    ELSE LET end_pt == c.dst[c.pos + 1]
             pos1 == (c.pos + 1) % count
             dx == end_pt[1] - c.start_pt[1]
             dy == end_pt[2] - c.start_pt[2]
             dist == Abs((c.pt[1] - c.start_pt[1]) * dy
                         - (c.pt[2] - c.start_pt[2]) * dx)
             successive_inner_product ==
                 (c.pt[1] - c.start_pt[1]) * (end_pt[1] - c.pt[1])
                 + (c.pt[2] - c.start_pt[2]) * (end_pt[2] - c.pt[2])
             wpos1 == (c.wpos + 1) % count
         IN  IF /\ 2 * dist * dist <= eps2 * (dx * dx + dy * dy)
                /\ dx # 0 /\ dy # 0
                /\ successive_inner_product >= 0
             THEN LET dst1 == [c.dst EXCEPT ![c.wpos + 1] = end_pt]
                  IN  CleanUp([dst |-> dst1, pos |-> (pos1 + 1) % count,
                               wpos |-> wpos1, start_pt |-> end_pt,
                               pt |-> dst1[pos1 + 1],
                               new_count |-> c.new_count - 1, i |-> c.i + 2],
                              count, eps2)
             ELSE CleanUp([dst |-> [c.dst EXCEPT ![c.wpos + 1] = c.pt],
                           pos |-> pos1, wpos |-> wpos1, start_pt |-> c.pt,
                           pt |-> end_pt, new_count |-> c.new_count,
                           i |-> c.i + 1],
                          count, eps2)

approxPolyDP(src, epsilon) ==
    LET count == Len(src)
        eps2 == epsilon * epsilon
        far1 == Farthest(src, 0, 0)
        start2 == far1.offset % count
        far2 == Farthest(src, start2, far1.offset)
        start3 == (start2 + far2.offset) % count
        far3 == Farthest(src, start3, far2.offset)
        far == (start3 + far3.offset) % count
        dst == IF far3.max_dist <= eps2 THEN <<SrcAt(src, start3)>>
               ELSE ApproxSlice(src, start3, far, eps2)
                    \o ApproxSlice(src, far, start3, eps2)
        n == Len(dst)
    IN  IF count = 0 THEN <<>>
        ELSE CleanUp([dst |-> dst, pos |-> 1 % n, wpos |-> 0,
                      start_pt |-> dst[n], pt |-> dst[1],
                      new_count |-> n, i |-> 0], n, eps2)

\* ------------------------------------- cv2.convexHull, cv2.fillConvexPoly
\* p lies in the closed triangle a b c (a segment or a point when they are
\* on one line).
InTriangle(a, b, c, p) ==
    LET o1 == Orient(a, b, p)
        o2 == Orient(b, c, p)
        o3 == Orient(c, a, p)
    IN  /\ (o1 >= 0 /\ o2 >= 0 /\ o3 >= 0) \/ (o1 <= 0 /\ o2 <= 0 /\ o3 <= 0)
        /\ MinOf({a[1], b[1], c[1]}) <= p[1] /\ p[1] <= MaxOf({a[1], b[1], c[1]})
        /\ MinOf({a[2], b[2], c[2]}) <= p[2] /\ p[2] <= MaxOf({a[2], b[2], c[2]})

\* p lies in the convex hull of the points.
InConvexHull(pts, p) ==
    \E a \in Range(pts), b \in Range(pts), c \in Range(pts) : InTriangle(a, b, c, p)

\* The edges of cv2.convexHull(points): the pairs of hull vertices with all
\* points on one side of the line through them.  A point in the middle of a
\* straight run of the hull is not a vertex.
Between(a, b, p) ==
    /\ Orient(a, b, p) = 0
    /\ MinOf({a[1], b[1]}) <= p[1] /\ p[1] <= MaxOf({a[1], b[1]})
    /\ MinOf({a[2], b[2]}) <= p[2] /\ p[2] <= MaxOf({a[2], b[2]})

HullEdges(pts) ==
    {e \in Range(pts) \X Range(pts) :
        /\ e[1] # e[2]
        /\ \/ \A p \in Range(pts) : Orient(e[1], e[2], p) >= 0
           \/ \A p \in Range(pts) : Orient(e[1], e[2], p) <= 0
        /\ \A p \in Range(pts) : Orient(e[1], e[2], p) = 0 => Between(e[1], e[2], p)}

\* The steps the library's line iterator has taken along the minor axis
\* after k steps along the major axis: it steps when the line has passed
\* the middle between two pixels.
MinorSteps(minor, major, k) ==
    Cardinality({m \in 0..minor : 2 * minor * k > major * (2 * m + 1)})

\* The pixels the library's 8-connected line from pt1 to pt2 sets; the
\* line is drawn from its left end.
LinePixels(pt1, pt2) ==
    LET a == IF pt2[1] < pt1[1] THEN pt2 ELSE pt1
        b == IF pt2[1] < pt1[1] THEN pt1 ELSE pt2
        dx == b[1] - a[1]
        dy == Abs(b[2] - a[2])
        ystep == IF b[2] < a[2] THEN -1 ELSE 1
    IN  IF dy > dx
        THEN {<<a[1] + MinorSteps(dx, dy, k), a[2] + ystep * k>> : k \in 0..dy}
        ELSE {<<a[1] + k, a[2] + ystep * MinorSteps(dy, dx, k)>> : k \in 0..dx}

\* cv2.fillConvexPoly sets the pixel p for the hull of the points: the
\* pixels that lie in the hull, and those on the lines it draws along the
\* hull's edges.
HullLines(pts) == UNION {LinePixels(e[1], e[2]) : e \in HullEdges(pts)}

InFilledHull(pts, lines, p) == InConvexHull(pts, p) \/ p \in lines

\* The gaps taken from all the background, the hull left out.
GapMaskOfBackground(binary, pts) ==
    [y \in 1..Rows(binary) |->
        [x \in 1..Cols(binary) |-> IF binary[y][x] = 0 THEN 255 ELSE 0]]

\* The gaps taken from the character pixels instead of the background.
GapMaskOfCharacter(binary, pts) ==
    LET lines == HullLines(pts)
    IN  [y \in 1..Rows(binary) |->
            [x \in 1..Cols(binary) |->
                IF /\ binary[y][x] # 0
                   /\ InFilledHull(pts, lines, <<x - 1, y - 1>>)
                THEN 255 ELSE 0]]

\* gaps = (filled_hull == 255) & (binary == 0), as an image of 0 and 255.
GapMask(binary, pts) ==
    LET lines == HullLines(pts)
    IN  [y \in 1..Rows(binary) |->
            [x \in 1..Cols(binary) |->
                IF /\ binary[y][x] = 0
                   /\ InFilledHull(pts, lines, <<x - 1, y - 1>>)
                THEN 255 ELSE 0]]

\* ------------------------------------------------------------ ContourData
\* ContourData(points, image_shape, num_points, is_closed); the hierarchy
\* field takes no part in what is modelled.
ContourData(pts, image_shape) ==
    [points |-> pts, image_shape |-> image_shape, num_points |-> Len(pts),
     is_closed |-> TRUE]

\* The length test of simplify off by one.
TooShortBelowTwo(c) == Len(c.points) < 2

\* len(self.points) < 3
TooShort(c) == Len(c.points) < 3

\* simplify returning the polygon as a ring, its first point repeated last.
simplifyRing(c, epsilon) ==
    IF TooShort(c) THEN c
    ELSE LET out == approxPolyDP(c.points, epsilon)
         IN  ContourData(out \o <<out[1]>>, c.image_shape)

\* ContourData.simplify(epsilon)
simplify(c, epsilon) ==
    IF TooShort(c) THEN c
    ELSE ContourData(approxPolyDP(c.points, epsilon), c.image_shape)

Shape(img) == <<Rows(img), Cols(img)>>

\* --------------------------------------------------------- ContourExtractor
\* The extractor with method 'opencv' or 'threshold': both trace the
\* binary image with _extract_opencv.  An extractor call is a record
\* [op, image_input, threshold, simplify, epsilon].

\* The filter of _extract_opencv kept off: every traced contour is kept.
KeepAll(contours, image_shape) ==
    [i \in 1..Len(contours) |-> ContourData(contours[i], image_shape)]

\* The loop of _extract_opencv over one list findContours may return: the
\* contours of at least 3 points, in the list's order.
KeepLong(contours, image_shape) ==
    LET long == SelectSeq(contours, LAMBDA pts : Len(pts) >= 3)
    IN  [i \in 1..Len(long) |-> ContourData(long[i], image_shape)]

\* _extract_opencv(binary): the lists it may return, one for every order
\* findContours may list the contours in.
extract_opencv(binary) ==
    {KeepLong(contours, Shape(binary)) : contours \in findContours(binary, "RETR_TREE")}

\* extract(image_input, threshold, simplify, epsilon)
extract(image_input, threshold, simplify_contours, epsilon) ==
    LET binary == binarize(image_input, threshold)
    IN  {IF simplify_contours
         THEN [i \in 1..Len(contours_list) |-> simplify(contours_list[i], epsilon)]
         ELSE contours_list : contours_list \in extract_opencv(binary)}

\* max(contours, key=...) with the last of the greatest elements.
LastLargest(contours) ==
    LET most == MaxOf({contours[i].num_points : i \in 1..Len(contours)})
    IN  contours[MaxOf({i \in 1..Len(contours) : contours[i].num_points = most})]

\* max(contours, key=lambda c: c.num_points): the first of the elements with
\* the greatest key.
Largest(contours) ==
    LET most == MaxOf({contours[i].num_points : i \in 1..Len(contours)})
    IN  contours[MinOf({i \in 1..Len(contours) : contours[i].num_points = most})]

\* extract_largest, given the list its call of extract returned.
extract_largest(contours) ==
    IF contours = <<>> THEN None ELSE Some(Largest(contours))

\* The loop of extract_with_openings over one list of gap contours.
GapPolygons(gap_contours, image_shape, simplify_contours, epsilon) ==
    LET long == SelectSeq(gap_contours, LAMBDA pts : Len(pts) >= 3)
    IN  [i \in 1..Len(long) |->
            ContourData(IF simplify_contours THEN approxPolyDP(long[i], epsilon)
                        ELSE long[i], image_shape)]

\* extract_with_openings, given the list its call of extract returned: the
\* pairs <<largest contour, gap polygons>> it may return.
extract_with_openings(image_input, threshold, simplify_contours, epsilon, all_contours) ==
    LET binary == binarize(image_input, threshold)
        largest_contour == Largest(all_contours)
        gaps == GapMask(binary, largest_contour.points)
    IN  IF all_contours = <<>> THEN {<<None, <<>> >>}
        ELSE {<<Some(largest_contour),
                GapPolygons(gap_contours, Shape(binary), simplify_contours, epsilon)>> :
                  gap_contours \in findContours(gaps, "RETR_EXTERNAL")}

\* ------------------------------------------------- inputs of the extractor
\* Rasters with values 0 and 1: 0 is a character pixel, 1 is background.
\* A raster without a character pixel.
BlankImg ==
    << <<1, 1, 1>>,
       <<1, 1, 1>>,
       <<1, 1, 1>> >>

\* One character pixel.
DotImg ==
    << <<1, 1, 1>>,
       <<1, 0, 1>>,
       <<1, 1, 1>> >>

\* A bar one pixel high.
BarImg ==
    << <<1, 1, 1, 1, 1>>,
       <<1, 0, 0, 0, 1>>,
       <<1, 1, 1, 1, 1>> >>

\* A block of 2 by 2 pixels.
BlockImg ==
    << <<1, 1, 1, 1>>,
       <<1, 0, 0, 1>>,
       <<1, 0, 0, 1>>,
       <<1, 1, 1, 1>> >>

\* A block of 4 by 4 pixels.
SquareImg ==
    << <<1, 1, 1, 1, 1, 1>>,
       <<1, 0, 0, 0, 0, 1>>,
       <<1, 0, 0, 0, 0, 1>>,
       <<1, 0, 0, 0, 0, 1>>,
       <<1, 0, 0, 0, 0, 1>>,
       <<1, 1, 1, 1, 1, 1>> >>

\* A diamond: a convex blob with diagonal edges.
DiamondImg ==
    << <<1, 1, 1, 1, 1, 1, 1>>,
       <<1, 1, 1, 0, 1, 1, 1>>,
       <<1, 1, 0, 0, 0, 1, 1>>,
       <<1, 0, 0, 0, 0, 0, 1>>,
       <<1, 1, 0, 0, 0, 1, 1>>,
       <<1, 1, 1, 0, 1, 1, 1>>,
       <<1, 1, 1, 1, 1, 1, 1>> >>

\* The pixels in the triangle (1,1), (6,2), (2,6): a convex blob with
\* slanted edges.
ArrowImg ==
    << <<1, 1, 1, 1, 1, 1, 1, 1>>,
       <<1, 0, 1, 1, 1, 1, 1, 1>>,
       <<1, 1, 0, 0, 0, 0, 0, 1>>,
       <<1, 1, 0, 0, 0, 0, 1, 1>>,
       <<1, 1, 0, 0, 0, 1, 1, 1>>,
       <<1, 1, 0, 0, 1, 1, 1, 1>>,
       <<1, 1, 0, 1, 1, 1, 1, 1>>,
       <<1, 1, 1, 1, 1, 1, 1, 1>> >>

\* A square ring around a hole of 2 by 2 pixels.
RingImg ==
    << <<1, 1, 1, 1, 1, 1>>,
       <<1, 0, 0, 0, 0, 1>>,
       <<1, 0, 1, 1, 0, 1>>,
       <<1, 0, 1, 1, 0, 1>>,
       <<1, 0, 0, 0, 0, 1>>,
       <<1, 1, 1, 1, 1, 1>> >>

\* A square ring around a hole of one pixel.
SmallRingImg ==
    << <<1, 1, 1, 1, 1>>,
       <<1, 0, 0, 0, 1>>,
       <<1, 0, 1, 0, 1>>,
       <<1, 0, 0, 0, 1>>,
       <<1, 1, 1, 1, 1>> >>

\* A U: a block with an opening of 2 by 2 pixels at its top.
UImg ==
    << <<1, 1, 1, 1, 1, 1>>,
       <<1, 0, 1, 1, 0, 1>>,
       <<1, 0, 1, 1, 0, 1>>,
       <<1, 0, 0, 0, 0, 1>>,
       <<1, 0, 0, 0, 0, 1>>,
       <<1, 1, 1, 1, 1, 1>> >>

\* An A: one enclosed hole and an opening at the bottom.
AImg ==
    << <<1, 1, 1, 1, 1, 1>>,
       <<1, 0, 0, 0, 0, 1>>,
       <<1, 0, 1, 1, 0, 1>>,
       <<1, 0, 1, 1, 0, 1>>,
       <<1, 0, 0, 0, 0, 1>>,
       <<1, 0, 1, 1, 0, 1>>,
       <<1, 0, 1, 1, 0, 1>>,
       <<1, 1, 1, 1, 1, 1>> >>

\* A block of 3 by 3 pixels and a smaller blob with more corners.
TwoBlobsImg ==
    << <<1, 1, 1, 1, 1, 1, 1, 1, 1>>,
       <<1, 0, 0, 0, 1, 0, 1, 0, 1>>,
       <<1, 0, 0, 0, 1, 0, 0, 0, 1>>,
       <<1, 0, 0, 0, 1, 1, 1, 1, 1>>,
       <<1, 1, 1, 1, 1, 1, 1, 1, 1>> >>

\* Two blocks, with as many corners each.
TieImg ==
    << <<1, 1, 1, 1, 1, 1, 1>>,
       <<1, 0, 0, 1, 0, 0, 1>>,
       <<1, 0, 0, 1, 0, 0, 1>>,
       <<1, 1, 1, 1, 1, 1, 1>> >>

\* A grey-level page: a dark block on white.
PageImg ==
    << <<255, 255, 255, 255>>,
       <<255, 10, 10, 255>>,
       <<255, 10, 10, 255>>,
       <<255, 255, 255, 255>> >>

\* A white grey-level page.
BlankPageImg ==
    << <<255, 255, 255>>,
       <<255, 255, 255>> >>

\* A block and a single pixel apart from it.
BlockDotImg ==
    << <<1, 1, 1, 1, 1, 1>>,
       <<1, 0, 0, 1, 0, 1>>,
       <<1, 0, 0, 1, 1, 1>>,
       <<1, 1, 1, 1, 1, 1>> >>

\* A 0/1 raster that is mostly character: a block of 5 by 5 pixels.
BoldImg ==
    << <<1, 1, 1, 1, 1, 1, 1>>,
       <<1, 0, 0, 0, 0, 0, 1>>,
       <<1, 0, 0, 0, 0, 0, 1>>,
       <<1, 0, 0, 0, 0, 0, 1>>,
       <<1, 0, 0, 0, 0, 0, 1>>,
       <<1, 0, 0, 0, 0, 0, 1>>,
       <<1, 1, 1, 1, 1, 1, 1>> >>

\* A 0..255 raster with a bright block on a dark ground.
NightImg ==
    << <<0,   0,   0,  0>>,
       <<0, 255, 200,  0>>,
       <<0, 255, 255, 40>>,
       <<0,   0,   0,  0>> >>

Images ==
    {BlankImg, DotImg, BarImg, BlockImg, SquareImg, DiamondImg, ArrowImg,
     RingImg, SmallRingImg, UImg, AImg, TwoBlobsImg, TieImg, BlockDotImg,
     PageImg, BlankPageImg, BoldImg, NightImg}

\* threshold: int = 127
DefaultThreshold == 127

\* The tolerances of the extractor calls, in pixels.
EpsilonChoices == {1, 2, 5}

ExtractorCall(op, image_input, simplify_contours, epsilon) ==
    [op |-> op, image_input |-> image_input, threshold |-> DefaultThreshold,
     simplify |-> simplify_contours, epsilon |-> epsilon]

ExtractorCalls(op) ==
    {ExtractorCall(op, img, s, e) : img \in Images, s \in BOOLEAN, e \in EpsilonChoices}

\* The contours simplify is called on: some of fewer than 3 points, some
\* that the extractor traces.
SimplifyInputs ==
    {ContourData(pts, <<6, 6>>) :
        pts \in {<<>>,
                 << <<1, 1>> >>,
                 << <<1, 1>>, <<4, 4>> >>,
                 << <<2, 3>>, <<2, 3>> >>,
                 << <<1, 1>>, <<1, 2>>, <<2, 2>>, <<2, 1>> >>,
                 << <<1, 1>>, <<1, 4>>, <<4, 4>>, <<4, 1>> >>,
                 << <<1, 2>>, <<2, 1>>, <<3, 1>>, <<4, 2>>,
                    <<4, 3>>, <<3, 4>>, <<2, 4>>, <<1, 3>> >>,
                 << <<0, 0>>, <<4, 0>>, <<0, 5>> >>,
                 << <<1, 1>>, <<1, 3>>, <<1, 5>>, <<5, 5>>, <<5, 1>> >>}}
    \cup {ContourData(<< <<4, 2>>, <<5, 2>>, <<7, 1>>, <<9, 4>>, <<8, 5>>,
                          <<9, 8>>, <<0, 7>> >>, <<10, 10>>)}

\* The tolerances of the simplify calls, in pixels.
SimplifyEpsilons == {0, 1, 2, 3, 5}

\* ------------------------------------------------------------------- state
VARIABLES
    pc,                   \* "idle", "sampling" (in the sampler's loop), "sampled"
    points,               \* generate's points argument, None before the call
    holes,                \* generate's holes argument
    boundary_refinement,  \* generate's boundary_refinement argument
    refinement_factor,    \* generate's refinement_factor argument
    strategy,             \* the sampler of the call in progress: "none",
                          \* "uniform" (_add_interior_points) or "grid"
                          \* (_generate_interior_points_poisson)
    num_interior,         \* the number of interior points it was asked for
    sampler,              \* the locals of the sampler, or None
    visited,              \* grid points visited by the grid sampler's loops
    interior_points,      \* the accepted candidates, in acceptance order
    attempts,             \* the sampler's attempt counter
    points_array,         \* generate's points_array once sampling is over
    simplices,            \* tri.simplices of the last triangulation
    mesh,                 \* the mesh generate returned (the object), or None
    err,                  \* "none", or the exception generate raised
    source,               \* the input mesh of the last refine_mesh call, after it
    refined,              \* the mesh the last refine_mesh call returned, or None
    max_area,             \* the max_area of the last refine_mesh call
    passes,               \* refine_mesh calls since generate returned
    call,                 \* the last call of the contour extractor, or None
    contours,             \* the list extract returned in that call
    largest,              \* the polygon extract_largest or
                          \* extract_with_openings returned, or None
    openings,             \* the gap list extract_with_openings returned
    simplified,           \* the ContourData the last simplify returned, or None
    meshed_logo,          \* the MeshedLogo object, None before its construction
    logo_call             \* the last call on the MeshedLogo with its outcome

vars == <<pc, points, holes, boundary_refinement, refinement_factor, strategy,
          num_interior, sampler, visited, interior_points, attempts,
          points_array, simplices, mesh, err, source, refined, max_area, passes,
          call, contours, largest, openings, simplified, meshed_logo,
          logo_call>>

extractor_vars == <<call, contours, largest, openings, simplified>>

logo_vars == <<meshed_logo, logo_call>>

generator_vars == <<pc, points, holes, boundary_refinement, refinement_factor,
                    strategy, num_interior, sampler, visited, interior_points,
                    attempts, points_array, simplices, mesh, err, source,
                    refined, max_area, passes>>

Init ==
    /\ pc = "idle"
    /\ points = None
    /\ holes = None
    /\ boundary_refinement = FALSE
    /\ refinement_factor = 2
    /\ strategy = "none"
    /\ num_interior = 0
    /\ sampler = None
    /\ visited = 0
    /\ interior_points = <<>>
    /\ attempts = 0
    /\ points_array = <<>>
    /\ simplices = <<>>
    /\ mesh = None
    /\ err = "none"
    /\ source = None
    /\ refined = None
    /\ max_area = 0
    /\ passes = 0
    /\ call = None
    /\ contours = <<>>
    /\ largest = None
    /\ openings = <<>>
    /\ simplified = None
    /\ meshed_logo = None
    /\ logo_call = None

\* Nothing is left of an earlier call's results.
ClearResults ==
    /\ simplices' = <<>>
    /\ mesh' = None
    /\ source' = None
    /\ refined' = None
    /\ max_area' = 0
    /\ passes' = 0

ClearSampler ==
    /\ sampler' = None
    /\ visited' = 0
    /\ interior_points' = <<>>
    /\ attempts' = 0

\* The length check off by one.
TooFewPointsBelowTwo(pts) == Len(pts) < 2

\* len(points) < 3
TooFewPoints(pts) == Len(pts) < 3

\* generate(points, ...) up to the sampler's loop: the length check, then
\* either the loop is entered or points_array is settled.  A MeshGenerator
\* keeps nothing from one call to the next, so one generate call and the
\* refine_mesh calls on its result make a behaviour.
GenerateCall(c) ==
    /\ pc = "idle"
    /\ UNCHANGED <<extractor_vars, logo_vars>>
    /\ mesh = None /\ err = "none"
    /\ ClearResults
    /\ points' = Some(c.points)
    /\ IF TooFewPoints(c.points)
       THEN /\ err' = "ValueError"
            /\ pc' = "idle"
            /\ UNCHANGED <<holes, boundary_refinement, refinement_factor,
                           points_array, strategy, num_interior, sampler,
                           visited, interior_points, attempts>>
       ELSE LET test_boundary == IF c.boundary_for_testing # None
                                 THEN c.boundary_for_testing ELSE Some(c.points)
                test_holes == IF c.holes_for_testing # None
                              THEN c.holes_for_testing ELSE c.holes
            IN  /\ err' = "none"
                /\ holes' = c.holes
                /\ boundary_refinement' = c.boundary_refinement
                /\ refinement_factor' = c.refinement_factor
                /\ interior_points' = <<>>
                /\ attempts' = 0
                /\ visited' = 0
                /\ strategy' = IF c.add_interior_points THEN "uniform" ELSE "none"
                /\ num_interior' = IF c.add_interior_points
                                   THEN c.num_interior_points ELSE 0
                /\ IF c.add_interior_points /\ c.num_interior_points > 0
                   THEN /\ sampler' = Some(SamplerSetup(c.points,
                                         c.num_interior_points, test_holes,
                                         test_boundary, c.character_image))
                        /\ points_array' = <<>>
                        /\ pc' = "sampling"
                   ELSE /\ sampler' = None
                        /\ points_array' = c.points
                        /\ pc' = "sampled"

\* One iteration of the sampler's while loop.
SampleAttempt ==
    /\ pc = "sampling"
    /\ UNCHANGED <<extractor_vars, logo_vars>>
    /\ LoopCondition(Get(sampler), Len(interior_points), attempts)
    /\ \E x \in Uniform(Get(sampler).box.x_min, Get(sampler).box.x_max),
          y \in Uniform(Get(sampler).box.y_min, Get(sampler).box.y_max) :
          interior_points' = IF Accepts(Get(sampler), x, y)
                             THEN Append(interior_points, <<x, y>>)
                             ELSE interior_points
    /\ attempts' = attempts + 1
    /\ UNCHANGED <<pc, points, holes, boundary_refinement, refinement_factor,
                   strategy, num_interior, sampler, visited, points_array,
                   simplices, mesh, err, source, refined, max_area, passes>>

\* The loop is left and _add_interior_points returns.
SampleReturn ==
    /\ pc = "sampling"
    /\ UNCHANGED <<extractor_vars, logo_vars>>
    /\ ~LoopCondition(Get(sampler), Len(interior_points), attempts)
    /\ points_array' = Combined(Get(sampler).boundary_points, interior_points)
    /\ pc' = "sampled"
    /\ ClearSampler
    /\ UNCHANGED <<points, holes, boundary_refinement, refinement_factor,
                   strategy, num_interior, simplices, mesh, err, source,
                   refined, max_area, passes>>

\* generate_from_contour(contour_points, density, smooth_interior, holes) up
\* to the loop of the sampler it chooses.  It has no length check and no
\* boundary refinement.
GenerateFromContourCall(c) ==
    /\ pc = "idle"
    /\ UNCHANGED <<extractor_vars, logo_vars>>
    /\ mesh = None /\ err = "none"
    /\ ClearResults
    /\ points' = Some(c.contour_points)
    /\ err' = "none"
    /\ holes' = c.holes
    /\ boundary_refinement' = FALSE
    /\ refinement_factor' = 2
    /\ interior_points' = <<>>
    /\ attempts' = 0
    /\ visited' = 0
    /\ num_interior' = NumInterior(c)
    /\ IF c.smooth_interior
       THEN /\ strategy' = "grid"
            /\ sampler' = Some(GridSetup(c.contour_points, NumInterior(c),
                                         c.holes, None))
            /\ points_array' = <<>>
            /\ pc' = "grid"
       ELSE /\ strategy' = "uniform"
            /\ IF NumInterior(c) > 0
               THEN /\ sampler' = Some(SamplerSetup(c.contour_points,
                                         NumInterior(c), c.holes, None, None))
                    /\ points_array' = <<>>
                    /\ pc' = "sampling"
               ELSE /\ sampler' = None
                    /\ points_array' = c.contour_points
                    /\ pc' = "sampled"

\* One grid point of the loops of lines 519-534: it is jittered and tested.
GridStep ==
    /\ pc = "grid"
    /\ UNCHANGED <<extractor_vars, logo_vars>>
    /\ GridCondition(Get(sampler), Len(interior_points), visited)
    /\ LET grid == Get(sampler)
           x == grid.x_steps[(visited \div grid.grid_size) + 1]
           y == grid.y_steps[(visited % grid.grid_size) + 1]
       IN  \E jitter_x \in Jitter(grid.box.x_min, grid.box.x_max, grid.grid_size),
              jitter_y \in Jitter(grid.box.y_min, grid.box.y_max, grid.grid_size) :
              interior_points' =
                  IF PathAccepts(Get(grid.boundary_path), Get(grid.hole_paths),
                                 x + jitter_x, y + jitter_y)
                  THEN Append(interior_points, <<x + jitter_x, y + jitter_y>>)
                  ELSE interior_points
    /\ visited' = visited + 1
    /\ UNCHANGED <<pc, points, holes, boundary_refinement, refinement_factor,
                   strategy, num_interior, sampler, attempts, points_array,
                   simplices, mesh, err, source, refined, max_area, passes>>

\* The loops are left and _generate_interior_points_poisson returns.
GridReturn ==
    /\ pc = "grid"
    /\ UNCHANGED <<extractor_vars, logo_vars>>
    /\ ~GridCondition(Get(sampler), Len(interior_points), visited)
    /\ points_array' = CombinedGrid(Get(sampler).boundary_points,
                                    interior_points, Get(sampler).num_points)
    /\ pc' = "sampled"
    /\ ClearSampler
    /\ UNCHANGED <<points, holes, boundary_refinement, refinement_factor,
                   strategy, num_interior, simplices, mesh, err, source,
                   refined, max_area, passes>>

\* The rest of generate: boundary refinement and the triangulation.
GenerateFinish ==
    /\ pc = "sampled"
    /\ UNCHANGED <<extractor_vars, logo_vars>>
    /\ LET arr == IF boundary_refinement
                  THEN refine_boundary(points_array, refinement_factor)
                  ELSE points_array
           outcomes == Delaunay(arr)
       IN  IF outcomes = {}
           THEN /\ err' = "QhullError"
                /\ mesh' = None
                /\ simplices' = <<>>
                /\ points_array' = arr
           ELSE \E simp \in outcomes :
                /\ err' = "none"
                /\ simplices' = simp
                /\ mesh' = Some(delaunay_triangulation(arr, simp, holes))
                /\ points_array' = arr
    /\ pc' = "idle"
    /\ strategy' = "none"
    /\ num_interior' = 0
    /\ UNCHANGED <<points, holes, boundary_refinement, refinement_factor, sampler,
                   visited, interior_points, attempts, source, refined,
                   max_area, passes>>

\* The mesh the caller holds last.
Latest == IF refined # None THEN Get(refined) ELSE Get(mesh)

\* refine_mesh(Latest, a): the caller keeps the mesh it passed (source, and
\* mesh when it is the generated one) and the mesh returned (refined).
RefineMesh(a) ==
    /\ pc = "idle"
    /\ UNCHANGED <<extractor_vars, logo_vars>>
    /\ mesh # None
    /\ passes < MaxPasses
    /\ LET r == refine_mesh(Latest, a)
       IN  /\ source' = Some(r.input)
           /\ refined' = Some(r.result)
           /\ mesh' = IF refined = None THEN Some(r.input) ELSE mesh
    /\ max_area' = a
    /\ passes' = passes + 1
    /\ UNCHANGED <<pc, points, holes, boundary_refinement, refinement_factor,
                   strategy, num_interior, sampler, visited, interior_points,
                   attempts, points_array, simplices, err>>

Generate == \E c \in Calls : GenerateCall(c)

GenerateFromContour == \E c \in ContourCalls : GenerateFromContourCall(c)

Refine == \E a \in MaxAreaChoices : RefineMesh(a)

\* extract(image_input, threshold, simplify, epsilon)
ExtractCall(c) ==
    /\ call = None
    /\ call' = Some(c)
    /\ contours' \in extract(c.image_input, c.threshold, c.simplify, c.epsilon)
    /\ largest' = None
    /\ openings' = <<>>
    /\ simplified' = None
    /\ UNCHANGED <<generator_vars, logo_vars>>

\* extract_largest(image_input, threshold, simplify, epsilon)
ExtractLargestCall(c) ==
    /\ call = None
    /\ call' = Some(c)
    /\ contours' \in extract(c.image_input, c.threshold, c.simplify, c.epsilon)
    /\ largest' = extract_largest(contours')
    /\ openings' = <<>>
    /\ simplified' = None
    /\ UNCHANGED <<generator_vars, logo_vars>>

\* extract_with_openings(image_input, threshold, simplify, epsilon)
ExtractWithOpeningsCall(c) ==
    /\ call = None
    /\ call' = Some(c)
    /\ contours' \in extract(c.image_input, c.threshold, c.simplify, c.epsilon)
    /\ \E result \in extract_with_openings(c.image_input, c.threshold,
                                           c.simplify, c.epsilon, contours') :
          /\ largest' = result[1]
          /\ openings' = result[2]
    /\ simplified' = None
    /\ UNCHANGED <<generator_vars, logo_vars>>

\* ContourData.simplify(epsilon) on the contour c
SimplifyCall(c, epsilon) ==
    /\ call = None
    /\ call' = Some([op |-> "simplify", contour |-> c, epsilon |-> epsilon])
    /\ simplified' = Some(simplify(c, epsilon))
    /\ contours' = <<>>
    /\ largest' = None
    /\ openings' = <<>>
    /\ UNCHANGED <<generator_vars, logo_vars>>

Extract == \E c \in ExtractorCalls("extract") : ExtractCall(c)

ExtractLargest == \E c \in ExtractorCalls("extract_largest") : ExtractLargestCall(c)

ExtractWithOpenings ==
    \E c \in ExtractorCalls("extract_with_openings") : ExtractWithOpeningsCall(c)

Simplify == \E c \in SimplifyInputs, epsilon \in SimplifyEpsilons : SimplifyCall(c, epsilon)

\* A caller that refines with one max_area until the mesh settles: generate
\* without sampling, then refine_mesh again and again with the max_area of
\* its first call.  The areas are those the pass bound of the model lets
\* settle: the largest triangle of the model's meshes has 100 square pixels
\* and a pass divides an area by 3.
SettlingAreas == {a \in {4, 10, 12, 50} : a * Pow3(MaxPasses) >= 100}

GenerateUnsampled ==
    \E c \in {d \in Calls : ~d.add_interior_points} : GenerateCall(c)

RefineAgain ==
    \E a \in SettlingAreas : (passes = 0 \/ a = max_area) /\ RefineMesh(a)

RepeatNext ==
    \/ GenerateUnsampled
    \/ GenerateFinish
    \/ RefineAgain

\* A call of refine_mesh takes place: the steps of RefineAgain are the steps
\* of RepeatNext that count a pass.
RefineCall ==
    /\ pc = "idle" /\ mesh # None /\ passes < MaxPasses
    /\ passes' = passes + 1

\* The caller's loop goes on: each call of refine_mesh ends (one loop over a
\* finite list of triangles) and the next one follows.
RepeatSpec == Init /\ [][RepeatNext]_vars /\ WF_passes(RefineCall)

\* ------------------------------------------------------------ MeshedLogo
\* The fields of a LogoGenerator that its constructor takes.
LogoGenerator(canvas_size, background_color, default_char_size) ==
    [canvas_size |-> canvas_size, background_color |-> background_color,
     default_char_size |-> default_char_size]

\* MeshedLogo.__init__
MeshedLogo(canvas_size, background_color, default_char_size) ==
    [generator |-> LogoGenerator(canvas_size, background_color,
                                 default_char_size),
     canvas_size |-> canvas_size,
     background_color |-> background_color]

\* The character size the constructor of LogoGenerator takes by default.
DefaultCharSize == <<200, 200>>

\* set_canvas building its generator with the default character size.
set_canvas_default_char(self, width, height) ==
    [self EXCEPT !.canvas_size = <<width, height>>,
                 !.generator = LogoGenerator(<<width, height>>,
                                   self.background_color, DefaultCharSize)]

\* MeshedLogo.set_canvas(width, height)
set_canvas(self, width, height) ==
    [self EXCEPT !.canvas_size = <<width, height>>,
                 !.generator = LogoGenerator(<<width, height>>,
                                   self.background_color,
                                   self.generator.default_char_size)]

\* MeshedLogo.set_background(color)
set_background(self, color) ==
    [self EXCEPT !.background_color = color,
                 !.generator = LogoGenerator(self.canvas_size, color,
                                   self.generator.default_char_size)]

\* The parameters of LogoGenerator.render_logo besides self.
RenderLogoParameters ==
    {"logo", "output_file", "show_wireframe", "show_vertices", "show_gradient",
     "dpi"}

\* The keyword arguments generate and generate_multi pass to render_logo.
GenerateKeywords ==
    {"show_wireframe", "show_vertices", "show_surface", "wireframe_thickness",
     "vertex_size", "vertex_mode", "show_gradient", "dpi"}

\* The keys _create_component reads with config[...].
RequiredKeys == {"text", "position", "scale"}

\* The ways create_logo may end for the components given, each the set of
\* keys of its dict: a KeyError for a missing key; else it returns, or the
\* pipeline under _create_component raises (the ValueError of generate for a
\* contour of fewer than 3 points).
CreateLogoOutcomes(components) ==
    IF \E i \in 1..Len(components) : ~(RequiredKeys \subseteq components[i])
    THEN {"KeyError"}
    ELSE IF components = <<>> THEN {"none"}
    ELSE {"none", "ValueError"}

\* How the call of render_logo ends: Python binds keyword arguments by name
\* and raises TypeError for a name the function does not take.
RenderLogoOutcome(keywords) ==
    IF keywords \subseteq RenderLogoParameters THEN "none" ELSE "TypeError"

\* create_logo and render_logo in turn, then "return output_file".
FrontOutcome(created, output_file) ==
    LET raised == IF created # "none" THEN created
                  ELSE RenderLogoOutcome(GenerateKeywords)
    IN  [raised |-> raised,
         returned |-> IF raised = "none" THEN Some(output_file) ELSE None]

\* The keys generate puts in its one component.
GenerateComponent ==
    {"text", "position", "scale", "colors", "is_formula", "mesh_density",
     "invert_mode", "invert_margin"}

\* The inputs of the calls on the MeshedLogo.
CanvasChoices == {<<800, 600>>, <<1000, 800>>, <<1200, 800>>}
ColorChoices == {"black", "white", "#123456"}
CharSizeChoices == {DefaultCharSize, <<100, 150>>}
TextChoices == {"", "A", "TEST"}
OutputFileChoices == {"logo.png", "tests/output/test_simple.png"}
ComponentChoices ==
    {<<>>,
     << {"text", "position", "scale", "colors"} >>,
     << {"text", "position", "scale", "colors"}, {"text", "scale"} >>}

NewMeshedLogo ==
    /\ meshed_logo = None
    /\ \E c \in CanvasChoices, b \in ColorChoices, d \in CharSizeChoices :
          /\ meshed_logo' = Some(MeshedLogo(c, b, d))
          /\ logo_call' = Some([op |-> "__init__", canvas_size |-> c,
                                 background_color |-> b,
                                 default_char_size |-> d])
    /\ UNCHANGED <<generator_vars, extractor_vars>>

LogoSetCanvas ==
    /\ meshed_logo # None
    /\ \E c \in CanvasChoices :
          /\ meshed_logo' = Some(set_canvas(Get(meshed_logo), c[1], c[2]))
          /\ logo_call' = Some([op |-> "set_canvas", width |-> c[1],
                                 height |-> c[2]])
    /\ UNCHANGED <<generator_vars, extractor_vars>>

LogoSetBackground ==
    /\ meshed_logo # None
    /\ \E b \in ColorChoices :
          /\ meshed_logo' = Some(set_background(Get(meshed_logo), b))
          /\ logo_call' = Some([op |-> "set_background", color |-> b])
    /\ UNCHANGED <<generator_vars, extractor_vars>>

\* MeshedLogo.generate(text, output_file, show_wireframe=..., show_surface=...)
LogoGenerate ==
    /\ meshed_logo # None
    /\ \E text \in TextChoices, output_file \in OutputFileChoices,
          show_wireframe \in BOOLEAN, show_surface \in BOOLEAN,
          created \in CreateLogoOutcomes(<<GenerateComponent>>) :
          logo_call' = Some([op |-> "generate", text |-> text,
                             output_file |-> output_file,
                             show_wireframe |-> show_wireframe,
                             show_surface |-> show_surface,
                             outcome |-> FrontOutcome(created, output_file)])
    /\ UNCHANGED <<meshed_logo, generator_vars, extractor_vars>>

\* MeshedLogo.generate_multi(components, output_file=...)
LogoGenerateMulti ==
    /\ meshed_logo # None
    /\ \E components \in ComponentChoices, output_file \in OutputFileChoices,
          show_wireframe \in BOOLEAN, show_surface \in BOOLEAN :
       \E created \in CreateLogoOutcomes(components) :
          logo_call' = Some([op |-> "generate_multi",
                             components |-> components,
                             output_file |-> output_file,
                             show_wireframe |-> show_wireframe,
                             show_surface |-> show_surface,
                             outcome |-> FrontOutcome(created, output_file)])
    /\ UNCHANGED <<meshed_logo, generator_vars, extractor_vars>>

Next ==
    \/ Generate \/ SampleAttempt \/ SampleReturn \/ GenerateFinish \/ Refine
    \/ GenerateFromContour \/ GridStep \/ GridReturn

Spec == Init /\ [][Next]_vars

\* The calls of the contour extractor, one call in a behaviour.
ExtractorNext ==
    \/ Simplify
    \/ Extract
    \/ ExtractLargest
    \/ ExtractWithOpenings

ExtractorSpec == Init /\ [][ExtractorNext]_vars

\* The calls on a MeshedLogo, after its construction.
LogoNext ==
    \/ NewMeshedLogo
    \/ LogoSetCanvas
    \/ LogoSetBackground
    \/ LogoGenerate
    \/ LogoGenerateMulti

LogoSpec == Init /\ [][LogoNext]_vars

\* ------------------------------------------------------- model's arithmetic
AllCoords(pts) == {p[1] : p \in Range(pts)} \cup {p[2] : p \in Range(pts)}

\* Every division the next steps make is exact: the interpolation of
\* _refine_boundary, and the centroids of the triangle filter and of the
\* refine_mesh passes still to come.
ExactArithmetic ==
    /\ pc = "sampled" /\ boundary_refinement =>
          \A i \in 1..Len(points_array) :
             LET p1 == points_array[i]
                 p2 == points_array[(i % Len(points_array)) + 1]
             IN  /\ (p2[1] - p1[1]) % (3 * refinement_factor) = 0
                 /\ (p2[2] - p1[2]) % (3 * refinement_factor) = 0
    /\ pc = "sampled" => \A v \in AllCoords(points_array) : v % 3 = 0
    /\ pc = "grid" =>
          LET grid == Get(sampler)
          IN  \A k \in 1..(grid.grid_size - 1) :
                 /\ (k * (grid.box.x_max - grid.box.x_min)) % (grid.grid_size - 1) = 0
                 /\ (k * (grid.box.y_max - grid.box.y_min)) % (grid.grid_size - 1) = 0
    /\ mesh # None =>
          \A v \in AllCoords(Latest.points) : v % Pow3(MaxPasses - passes) = 0

\* ------------------------------------------------------------ fair schedule
\* A started sampler loop runs on: the program is one thread, and each
\* iteration and the return take finite time.
FairSpec == Spec /\ WF_vars(SampleAttempt) /\ WF_vars(SampleReturn)

\* ================================================================== claims
\* The centroid of triangle t (0-based indices) of the points pts.
TriCentroid(pts, t) ==
    Centroid(PointAt(pts, t[1]), PointAt(pts, t[2]), PointAt(pts, t[3]))

\* The centroid of t lies inside one of the gap polygons.
CentroidInGap(pts, t, gaps) ==
    \E i \in 1..Len(gaps) : contains_point(gaps[i], TriCentroid(pts, t))

\* generate has returned or raised.
Returned == points # None /\ pc = "idle"

\* Three of the points are not on one line.
NonCollinear(pts) ==
    \E i, j, k \in 1..Len(pts) : Orient(pts[i], pts[j], pts[k]) # 0

\* C1: generate called with fewer than 3 points raises ValueError and returns
\* no mesh, whatever the other arguments are: it never reaches the sampler or
\* the triangulation.
C1_TooFewPointsFail ==
    /\ [](err = "ValueError" =>
             /\ mesh = None
             /\ pc = "idle"
             /\ sampler = None /\ simplices = <<>>)
    /\ [][(points' # points /\ err' # "ValueError") =>
              \A c \in {d \in Calls : Len(d.points) < 3} : ~GenerateCall(c)]_vars

C1_Witness ==
    /\ points = Some(TwoPoints)
    /\ err = "ValueError"
    /\ mesh = None

\* C2: with a non-empty gap list and a Delaunay triangle whose centroid is
\* outside every gap, the mesh holds exactly the Delaunay triangles whose
\* centroid is inside no gap.
C2_CentroidFilter ==
    (mesh # None /\ HasHoles(holes)
        /\ \E t \in Range(simplices) :
              ~CentroidInGap(Get(mesh).points, t, Get(holes))) =>
        Range(Get(mesh).triangles) =
            {t \in Range(simplices) :
                ~CentroidInGap(Get(mesh).points, t, Get(holes))}

\* A triangle was dropped and another kept.
C2_Witness ==
    /\ mesh # None /\ HasHoles(holes)
    /\ \E t \in Range(simplices) : CentroidInGap(Get(mesh).points, t, Get(holes))
    /\ \E t \in Range(simplices) : ~CentroidInGap(Get(mesh).points, t, Get(holes))
    /\ Get(mesh).num_triangles < Len(simplices)

\* C3: 3 or more non-collinear points always give a mesh of at least one
\* triangle; when every Delaunay centroid is inside a gap the mesh holds the
\* full unfiltered triangle set.
C3_FilterFallsBack ==
    /\ (Returned /\ Len(Get(points)) >= 3 /\ NonCollinear(points_array)) =>
          mesh # None
    /\ mesh # None => Len(Get(mesh).triangles) >= 1
    /\ (mesh # None /\ HasHoles(holes)
          /\ \A t \in Range(simplices) :
                CentroidInGap(Get(mesh).points, t, Get(holes))) =>
          Get(mesh).triangles = simplices

C3_Witness ==
    /\ mesh # None /\ HasHoles(holes)
    /\ \A t \in Range(simplices) : CentroidInGap(Get(mesh).points, t, Get(holes))
    /\ Get(mesh).triangles = simplices
    /\ Len(simplices) >= 2

\* num_triangles >= 1, every index within [0, num_vertices), no triangle with
\* a repeated index.
WellFormed(m) ==
    /\ m.num_triangles >= 1
    /\ m.num_triangles = Len(m.triangles)
    /\ m.num_vertices = Len(m.points)
    /\ \A t \in Range(m.triangles) :
          /\ \A i \in 1..3 : 0 <= t[i] /\ t[i] < m.num_vertices
          /\ t[1] # t[2] /\ t[2] # t[3] /\ t[1] # t[3]

\* C4: for 3 or more non-collinear points, the mesh generate returns and the
\* mesh after any number of refine_mesh calls have num_triangles >= 1, every
\* triangle index within [0, num_vertices) and no repeated index.
C4_MeshWellFormed ==
    /\ (Returned /\ err # "ValueError" /\ NonCollinear(points_array)) =>
          err = "none" /\ mesh # None
    /\ mesh # None => WellFormed(Get(mesh))
    /\ refined # None => WellFormed(Get(refined))

\* A mesh refined MaxPasses times, grown by the passes.
C4_Witness ==
    /\ refined # None /\ passes = MaxPasses
    /\ Get(refined).num_triangles > Get(mesh).num_triangles + 2
    /\ WellFormed(Get(refined))

\* Twice the area of triangle t of mesh m.
TriArea2(m, t) ==
    Area2(PointAt(m.points, t[1]), PointAt(m.points, t[2]), PointAt(m.points, t[3]))

\* The numbers (1-based) of the triangles of m whose area is above a.
Big(m, a) == {i \in 1..Len(m.triangles) : TriArea2(m, m.triangles[i]) > AreaLimit2(a)}

\* The indices of the vertices the last refine_mesh call added.
NewVertices == Get(source).num_vertices .. (Get(refined).num_vertices - 1)

\* C5: refine_mesh replaces every triangle (a, b, c) with area > max_area by
\* (a, b, n), (b, c, n), (c, a, n), n a new vertex at its centroid, and keeps
\* every other triangle; with k oversized triangles the result has k more
\* vertices and 2k more triangles.
C5_RefineSubdivides ==
    refined # None =>
        LET src == Get(source)
            res == Get(refined)
            k == Cardinality(Big(src, max_area))
        IN  /\ res.num_vertices = src.num_vertices + k
            /\ res.num_triangles = src.num_triangles + 2 * k
            /\ Len(res.points) = res.num_vertices
            /\ Len(res.triangles) = res.num_triangles
            /\ \A i \in 1..Len(src.triangles) :
                  LET t == src.triangles[i]
                  IN  IF i \in Big(src, max_area)
                      THEN \E n \in NewVertices, j \in 1..(Len(res.triangles) - 2) :
                              /\ PointAt(res.points, n) = TriCentroid(src.points, t)
                              /\ res.triangles[j] = <<t[1], t[2], n>>
                              /\ res.triangles[j + 1] = <<t[2], t[3], n>>
                              /\ res.triangles[j + 2] = <<t[3], t[1], n>>
                      ELSE t \in Range(res.triangles)

\* Some triangles were subdivided and another kept.
C5_Witness ==
    /\ refined # None
    /\ Cardinality(Big(Get(source), max_area)) >= 2
    /\ Cardinality(Big(Get(source), max_area)) < Get(source).num_triangles
    /\ Get(refined).num_triangles =
          Get(source).num_triangles + 2 * Cardinality(Big(Get(source), max_area))

\* C6: refine_mesh is a single pass: the triangles a subdivision creates are
\* not subdivided in the same call (each new vertex is in exactly the three
\* triangles of its fan, with two input vertices each), so the result may
\* still hold triangles above max_area.
C6_SinglePass ==
    refined # None =>
        \A n \in NewVertices :
            LET fan == {j \in 1..Len(Get(refined).triangles) :
                           \E i \in 1..3 : Get(refined).triangles[j][i] = n}
            IN  /\ Cardinality(fan) = 3
                /\ \A j \in fan :
                      /\ Get(refined).triangles[j][3] = n
                      /\ Get(refined).triangles[j][1] < Get(source).num_vertices
                      /\ Get(refined).triangles[j][2] < Get(source).num_vertices

\* A triangle created by the call is itself above max_area.
C6_Witness ==
    /\ refined # None
    /\ \E t \in Range(Get(refined).triangles) :
          /\ t[3] \in NewVertices
          /\ TriArea2(Get(refined), t) > AreaLimit2(max_area)

\* C7: on a mesh with no triangle above max_area, refine_mesh is a no-op: the
\* result has the same counts, points and triangles.
C7_RefineNoOp ==
    (refined # None /\ Big(Get(source), max_area) = {}) => Get(refined) = Get(source)

\* A second pass that changed nothing after a first one that did, and a pass
\* over triangles of exactly max_area.
C7_Witness ==
    /\ refined # None /\ passes = 2
    /\ Big(Get(source), max_area) = {}
    /\ Get(source).num_triangles > Get(mesh).num_triangles
    /\ Get(refined) = Get(source)

C7_WitnessEqualArea ==
    /\ refined # None
    /\ \E t \in Range(Get(source).triangles) :
          TriArea2(Get(source), t) = AreaLimit2(max_area)
    /\ Get(refined) = Get(source)

\* C8: every refine_mesh pass whose input holds a triangle above max_area
\* strictly increases the vertex count and the triangle count; from a single
\* triangle of area 100 with max_area 10 the second pass yields more of both
\* than the first.
C8_PassesGrow ==
    (refined # None /\ Big(Get(source), max_area) # {}) =>
        /\ Get(refined).num_vertices > Get(source).num_vertices
        /\ Get(refined).num_triangles > Get(source).num_triangles

\* The second pass over the single triangle of area 100: 4 vertices and 3
\* triangles became 7 and 9.
C8_Witness ==
    /\ mesh # None /\ refined # None
    /\ Get(mesh).num_triangles = 1
    /\ TriArea2(Get(mesh), Get(mesh).triangles[1]) = AreaLimit2(100)
    /\ max_area = 10 /\ passes = 2
    /\ Get(source).num_vertices = 4 /\ Get(source).num_triangles = 3
    /\ Get(refined).num_vertices = 7 /\ Get(refined).num_triangles = 9

\* The triangles of m above a, in the order of m.triangles.
BigInOrder(m, a) == SelectSeq(m.triangles, LAMBDA t : TriArea2(m, t) > AreaLimit2(a))

\* C9: refine_mesh returns an expanded copy: the call leaves the input mesh as
\* it was, the result starts with the input's points in their order, and the
\* centroids follow in the order in which the oversized triangles are met.
C9_ExpandedCopy ==
    [][passes' = passes + 1 =>
          LET before == Latest
              res == Get(refined')
              big == BigInOrder(before, max_area')
          IN  /\ Get(source') = before
              /\ (refined = None => mesh' = mesh)
              /\ Len(res.points) = Len(before.points) + Len(big)
              /\ SubSeq(res.points, 1, Len(before.points)) = before.points
              /\ \A j \in 1..Len(big) :
                    res.points[Len(before.points) + j] =
                        TriCentroid(before.points, big[j])]_vars

\* Two centroids were appended.
C9_Witness ==
    /\ refined # None
    /\ Get(refined).num_vertices >= Get(source).num_vertices + 2
    /\ SubSeq(Get(refined).points, 1, Get(source).num_vertices) = Get(source).points

\* C10: uniform-random rejection sampling always terminates: it makes at most
\* 20 x target_count attempts, never accepts more than target_count
\* candidates, and its loop is always left, also when no candidate can be
\* accepted.
C10_SamplerTerminates ==
    /\ [](pc = "sampling" =>
            /\ attempts <= AttemptFactor * Get(sampler).num_points
            /\ Len(interior_points) <= Get(sampler).num_points
            /\ Len(interior_points) <= attempts)
    /\ ((pc = "sampling") ~> (pc = "sampled"))

\* The budget is used up with nothing accepted: a raster with no foreground.
C10_Witness ==
    /\ pc = "sampling"
    /\ Get(sampler).character_image = Some(Blank)
    /\ Get(sampler).num_points = MaxTarget
    /\ attempts = AttemptFactor * MaxTarget
    /\ interior_points = <<>>

\* The same on a boundary of no area.
C10_WitnessZeroArea ==
    /\ pc = "sampling"
    /\ Get(sampler).boundary_path = Some(ZeroArea)
    /\ attempts = AttemptFactor * Get(sampler).num_points
    /\ interior_points = <<>>

\* The loop is left early: the target is met before the budget is used up.
C10_WitnessEarly ==
    /\ pc = "sampling"
    /\ Len(interior_points) = Get(sampler).num_points
    /\ attempts = Get(sampler).num_points
    /\ ~ENABLED SampleAttempt

\* C11: the point set a sampler returns is the k boundary points in their
\* original order followed by the accepted interior points in acceptance
\* order, at most the requested number of them; the mesh generate builds from
\* it has exactly these points in this order, so its first k points are the
\* boundary points.
C11_PointOrder ==
    [][/\ (pc \in {"sampling", "grid"} /\ pc' = "sampled") =>
             /\ points_array' = Get(points) \o interior_points
             /\ Len(interior_points) <= num_interior
       /\ (pc = "sampled" /\ strategy # "none" /\ mesh' # None) =>
             /\ Get(mesh').points = points_array
             /\ SubSeq(Get(mesh').points, 1, Len(Get(points))) = Get(points)]_vars

\* The part of C11 about the samplers alone, and the mesh of a call without
\* boundary refinement.
C11_SamplerOrder ==
    [][/\ (pc \in {"sampling", "grid"} /\ pc' = "sampled") =>
             /\ points_array' = Get(points) \o interior_points
             /\ Len(interior_points) <= num_interior
       /\ (pc = "sampled" /\ strategy # "none" /\ mesh' # None
             /\ ~boundary_refinement) =>
             Get(mesh').points = points_array]_vars

\* C12: a sampler asked for 0 interior points, or one whose run accepts no
\* candidate, returns the boundary's own point set unchanged, for the
\* uniform-random and for the jittered-grid strategy: no vertex is added, no
\* point is reordered and no error is raised.
C12_NothingAccepted ==
    [][(/\ pc # "sampled" /\ pc' = "sampled"
        /\ strategy' # "none"
        /\ \/ num_interior' = 0
           \/ pc \in {"sampling", "grid"} /\ interior_points = <<>>) =>
          /\ points_array' = Get(points')
          /\ err' = "none"]_vars

\* The grid sampler went over its whole grid for a positive target and
\* accepted nothing.
C12_Witness ==
    /\ pc = "sampled" /\ strategy = "grid"
    /\ num_interior > 0
    /\ points_array = Get(points)

\* The same for the uniform-random sampler, and both samplers asked for 0
\* points.
C12_WitnessUniform ==
    /\ pc = "sampled" /\ strategy = "uniform"
    /\ num_interior > 0
    /\ points_array = Get(points)

C12_WitnessZeroUniform ==
    pc = "sampled" /\ strategy = "uniform" /\ num_interior = 0

C12_WitnessZeroGrid ==
    pc = "sampled" /\ strategy = "grid" /\ num_interior = 0

\* The candidate (x, y) can be accepted by the next iteration of the loop.
CanAccept(x, y) ==
    ENABLED (SampleAttempt /\ interior_points' = Append(interior_points, <<x, y>>))

\* C13: in generate with interior points requested, a supplied raster decides
\* the membership test.  With a raster a candidate (x, y) is accepted if and
\* only if (round(x), round(y)) is within the raster and that pixel is 0, and
\* the boundary polygon and the gaps are not consulted; without one it is
\* accepted if and only if it is inside the boundary polygon and inside no
\* gap polygon.
C13_OracleChoice ==
    (pc = "sampling"
        /\ Len(interior_points) < Get(sampler).num_points
        /\ attempts < AttemptFactor * Get(sampler).num_points) =>
        \A x \in Uniform(Get(sampler).box.x_min, Get(sampler).box.x_max),
           y \in Uniform(Get(sampler).box.y_min, Get(sampler).box.y_max) :
            IF Get(sampler).character_image # None
            THEN LET raster == Get(Get(sampler).character_image)
                     col == Round(x)
                     row == Round(y)
                 IN  CanAccept(x, y) <=>
                        /\ 0 <= col /\ col < raster.shape[2]
                        /\ 0 <= row /\ row < raster.shape[1]
                        /\ <<row, col>> \in raster.zeros
            ELSE CanAccept(x, y) <=>
                    /\ contains_point(Get(Get(sampler).boundary_path), <<x, y>>)
                    /\ \A g \in Range(Get(Get(sampler).hole_paths)) :
                          ~contains_point(g, <<x, y>>)

\* With a raster, a candidate outside the boundary polygon was accepted.
C13_Witness ==
    /\ pc = "sampling"
    /\ Get(sampler).character_image # None
    /\ \E i \in 1..Len(interior_points) :
          ~contains_point(Get(sampler).boundary_points, interior_points[i])

\* Without one, a candidate inside the boundary and inside a gap cannot be
\* accepted.
C13_WitnessPath ==
    /\ pc = "sampling"
    /\ Get(sampler).character_image = None
    /\ attempts < AttemptFactor * Get(sampler).num_points
    /\ Len(interior_points) < Get(sampler).num_points
    /\ \E x \in Uniform(Get(sampler).box.x_min, Get(sampler).box.x_max),
          y \in Uniform(Get(sampler).box.y_min, Get(sampler).box.y_max) :
          /\ contains_point(Get(Get(sampler).boundary_path), <<x, y>>)
          /\ \E g \in Range(Get(Get(sampler).hole_paths)) :
                contains_point(g, <<x, y>>)
          /\ ~CanAccept(x, y)

\* -------------------------------------------------------------- extractor
\* The extractor call op has returned.
ExtractorReturned(op) == call # None /\ Get(call).op = op

\* The lists extract may return for the arguments of the last call.
ExtractOfCall ==
    extract(Get(call).image_input, Get(call).threshold, Get(call).simplify,
            Get(call).epsilon)

\* C14: extract_largest returns the polygon with the greatest vertex count
\* among the polygons extract returns for the same arguments, the first of
\* them in extraction order when several tie, whatever area they enclose;
\* it returns None exactly when extract returns an empty list.
C14_LargestByVertexCount ==
    ExtractorReturned("extract_largest") =>
        /\ contours \in ExtractOfCall
        /\ largest = None <=> contours = <<>>
        /\ largest # None =>
              \E i \in 1..Len(contours) :
                 /\ Get(largest) = contours[i]
                 /\ \A j \in 1..Len(contours) :
                       /\ Len(contours[j].points) <= Len(contours[i].points)
                       /\ j < i => Len(contours[j].points) < Len(contours[i].points)

\* Twice the area a polygon encloses.
Enclosed2(pts) ==
    Abs(SumOf({<<i, pts[i][1] * pts[(i % Len(pts)) + 1][2]
                    - pts[(i % Len(pts)) + 1][1] * pts[i][2]>> : i \in 1..Len(pts)}))

\* extract_largest has returned a polygon that encloses less area than
\* another extracted polygon with fewer vertices.
C14_Witness ==
    /\ ExtractorReturned("extract_largest")
    /\ largest # None
    /\ \E j \in 1..Len(contours) :
          /\ Len(contours[j].points) < Len(Get(largest).points)
          /\ Enclosed2(contours[j].points) > Enclosed2(Get(largest).points)

\* extract_largest has returned the first of two polygons with as many
\* vertices.
C14_WitnessTie ==
    /\ ExtractorReturned("extract_largest")
    /\ Len(contours) = 2
    /\ Len(contours[1].points) = Len(contours[2].points)
    /\ contours[1] # contours[2]
    /\ largest = Some(contours[1])

\* extract_largest has returned None for a raster with character pixels.
C14_WitnessNone ==
    /\ ExtractorReturned("extract_largest")
    /\ largest = None
    /\ NonZero(binarize(Get(call).image_input, Get(call).threshold)) # {}

\* The polygons the last extractor call returned.
ReturnedPolygons ==
    IF call = None THEN {}
    ELSE IF Get(call).op = "extract" THEN Range(contours)
    ELSE IF Get(call).op = "extract_largest" THEN Range(largest)
    ELSE IF Get(call).op = "extract_with_openings"
         THEN Range(largest) \cup Range(openings)
    ELSE {}

\* C15: every polygon extract, extract_largest and extract_with_openings
\* return (the outer polygon and each gap polygon), with simplification on
\* or off, has at least 3 points.
C15_AtLeastThreePoints ==
    \A c \in ReturnedPolygons : Len(c.points) >= 3 /\ c.num_points >= 3

\* With simplification off every returned polygon has at least 3 points.
C15_TracedAtLeastThree ==
    (call # None /\ Get(call).op # "simplify" /\ ~Get(call).simplify) =>
        \A c \in ReturnedPolygons : Len(c.points) >= 3 /\ c.num_points >= 3

\* A call with simplification off has returned polygons though the
\* library traced a contour of fewer than 3 points.
C15_WitnessTraced ==
    /\ call # None /\ Get(call).op = "extract" /\ ~Get(call).simplify
    /\ contours # <<>>
    /\ \E traced \in findContours(binarize(Get(call).image_input,
                                           Get(call).threshold), "RETR_TREE") :
          \E i \in 1..Len(traced) : Len(traced[i]) < 3

\* The raster has no character pixel: every pixel is background, 1 in a
\* raster of 0 and 1, 255 in a grey-level raster.
BlankRaster(img) ==
    \/ \A p \in Positions(img) : PixelAt(img, p) = 1
    \/ \A p \in Positions(img) : PixelAt(img, p) = 255

\* C16: for a raster without a foreground pixel extract returns an empty
\* list, extract_largest returns None and extract_with_openings returns
\* (None, []).
C16_BlankRaster ==
    (/\ call # None /\ Get(call).op # "simplify"
     /\ BlankRaster(Get(call).image_input)) =>
        /\ contours = <<>>
        /\ largest = None
        /\ openings = <<>>

\* extract_with_openings has returned (None, []) for a blank raster.
C16_Witness ==
    /\ ExtractorReturned("extract_with_openings")
    /\ BlankRaster(Get(call).image_input)
    /\ largest = None /\ openings = <<>>

C16_WitnessExtract ==
    ExtractorReturned("extract") /\ BlankRaster(Get(call).image_input) /\ contours = <<>>

C16_WitnessLargest ==
    /\ ExtractorReturned("extract_largest")
    /\ Get(call).image_input = BlankPageImg
    /\ largest = None

\* The polygon is convex: it has at least 3 corners, not all on one line,
\* and all of them lie on the same side of each of its edges.
Convex(pts) ==
    LET n == Len(pts)
        next(i) == (i % n) + 1
    IN  /\ n >= 3
        /\ \E i \in 1..n, j \in 1..n : Orient(pts[i], pts[next(i)], pts[j]) # 0
        /\ \/ \A i \in 1..n, j \in 1..n : Orient(pts[i], pts[next(i)], pts[j]) >= 0
           \/ \A i \in 1..n, j \in 1..n : Orient(pts[i], pts[next(i)], pts[j]) <= 0

\* The binary image of the last extractor call.
BinaryOfCall == binarize(Get(call).image_input, Get(call).threshold)

\* The background pixels the filled hull of the points covers.
CoveredBackground(binary, pts) ==
    LET lines == HullLines(pts)
    IN  {p \in Positions(binary) :
            PixelAt(binary, p) = 0 /\ InFilledHull(pts, lines, p)}

\* C17 as stated: if the outer polygon extract_with_openings chose is
\* convex, the gap list it returns is empty.
C17_ConvexNoGaps ==
    (/\ ExtractorReturned("extract_with_openings")
     /\ largest # None
     /\ Convex(Get(largest).points)) => openings = <<>>

\* C17: if the outer polygon extract_with_openings chose is convex and no
\* background pixel lies inside its filled convex hull, the gap list it
\* returns is empty.
C17_ConvexFilledNoGaps ==
    (/\ ExtractorReturned("extract_with_openings")
     /\ largest # None
     /\ Convex(Get(largest).points)
     /\ CoveredBackground(BinaryOfCall, Get(largest).points) = {}) => openings = <<>>

\* extract_with_openings has chosen a convex polygon with diagonal edges
\* whose filled hull covers character pixels only.
C17_Witness ==
    /\ ExtractorReturned("extract_with_openings")
    /\ largest # None
    /\ Convex(Get(largest).points)
    /\ \E i \in 1..(Len(Get(largest).points) - 1) :
          /\ Get(largest).points[i][1] # Get(largest).points[i + 1][1]
          /\ Get(largest).points[i][2] # Get(largest).points[i + 1][2]
    /\ CoveredBackground(BinaryOfCall, Get(largest).points) = {}
    /\ openings = <<>>

\* extract_with_openings has chosen a convex polygon and returned a gap.
C17_WitnessRing ==
    /\ ExtractorReturned("extract_with_openings")
    /\ ~Get(call).simplify
    /\ largest # None
    /\ Convex(Get(largest).points)
    /\ Len(openings) = 1

\* The foreground regions of a binary image, and the background regions
\* that foreground encloses.
ForegroundRegions(binary) == Components(NonZero(binary), 8)

EnclosedRegions(binary) ==
    Components(ZeroWithFrame(binary) \ OuterBackground(binary), 4)

\* One foreground region that encloses one background region.
FilledRing(binary) ==
    /\ Cardinality(ForegroundRegions(binary)) = 1
    /\ Cardinality(EnclosedRegions(binary)) = 1

\* The bounding box of inner lies strictly inside that of outer.
StrictlyInside(inner, outer) ==
    LET a == get_bounding_box(inner)
        b == get_bounding_box(outer)
    IN  /\ b.x_min < a.x_min /\ a.x_max < b.x_max
        /\ b.y_min < a.y_min /\ a.y_max < b.y_max

\* One gap, its bounding box strictly inside that of the outer polygon.
OneGapInside ==
    /\ largest # None
    /\ Len(openings) = 1
    /\ StrictlyInside(openings[1].points, Get(largest).points)

TracedLong(binary, region) ==
    LET mask == [y \in 1..Rows(binary) |->
                    [x \in 1..Cols(binary) |->
                        IF <<x - 1, y - 1>> \in region THEN 255 ELSE 0]]
    IN  \A traced \in findContours(mask, "RETR_EXTERNAL") :
           \A i \in 1..Len(traced) : Len(traced[i]) >= 3

\* The ring of the amended claim: the outline of the enclosed region has at
\* least 3 points and the filled hull of the chosen polygon covers no
\* background but the enclosed region.
PlainRing(binary) ==
    /\ FilledRing(binary)
    /\ \A h \in EnclosedRegions(binary) :
          /\ TracedLong(binary, h)
          /\ largest # None =>
                CoveredBackground(binary, Get(largest).points) \subseteq h

C18_PlainRingSimplified ==
    (/\ ExtractorReturned("extract_with_openings")
     /\ PlainRing(BinaryOfCall)) => OneGapInside

C18_WitnessOpening ==
    /\ ExtractorReturned("extract_with_openings")
    /\ ~Get(call).simplify
    /\ FilledRing(BinaryOfCall)
    /\ Len(openings) = 2

\* The foreground is one convex blob: one region, made of all the pixels in
\* its own convex hull, so that it encloses no background.
ConvexBlob(binary) ==
    /\ Cardinality(ForegroundRegions(binary)) = 1
    /\ EnclosedRegions(binary) = {}
    /\ \A p \in Positions(binary) :
          (\E a \in NonZero(binary), b \in NonZero(binary), c \in NonZero(binary) :
              InTriangle(a, b, c, p)) => PixelAt(binary, p) # 0

\* C19: for a raster whose foreground is a single convex blob with no
\* enclosed background, extract_with_openings returns an empty gap list.
C19_ConvexBlobNoGaps ==
    (/\ ExtractorReturned("extract_with_openings")
     /\ ConvexBlob(BinaryOfCall)) => openings = <<>>

\* The gap list is empty for the convex blobs whose filled hull covers no
\* background pixel.
C19_CoveredBlobNoGaps ==
    (/\ ExtractorReturned("extract_with_openings")
     /\ ConvexBlob(BinaryOfCall)
     /\ largest # None
     /\ CoveredBackground(BinaryOfCall, Get(largest).points) = {}) => openings = <<>>

\* extract_with_openings has returned no gap for a convex blob of more
\* than one row.
C19_WitnessNoGaps ==
    /\ ExtractorReturned("extract_with_openings")
    /\ ~Get(call).simplify
    /\ ConvexBlob(BinaryOfCall)
    /\ largest # None
    /\ Len(Get(largest).points) = 4
    /\ openings = <<>>

\* C20: simplify on a polygon with fewer than 3 points returns the polygon
\* unchanged (same points, same order, same count), whatever the epsilon.
C20_ShortUnchanged ==
    (/\ ExtractorReturned("simplify")
     /\ Len(Get(call).contour.points) < 3) =>
        /\ simplified = Some(Get(call).contour)
        /\ Get(simplified).points = Get(call).contour.points
        /\ Get(simplified).num_points = Get(call).contour.num_points

\* simplify has returned for a polygon of 2 distinct points that lie
\* within epsilon of each other.
C20_Witness ==
    /\ ExtractorReturned("simplify")
    /\ Len(Get(call).contour.points) = 2
    /\ Get(call).contour.points[1] # Get(call).contour.points[2]
    /\ Dist2(Get(call).contour.points[1], Get(call).contour.points[2])
          <= Get(call).epsilon * Get(call).epsilon
    /\ simplified # None

\* simplify has returned for an empty polygon.
C20_WitnessEmpty ==
    /\ ExtractorReturned("simplify")
    /\ Get(call).contour.points = <<>>
    /\ simplified = Some(Get(call).contour)

\* simplify has shortened a polygon of at least 3 points.
C20_WitnessLong ==
    /\ ExtractorReturned("simplify")
    /\ Len(Get(call).contour.points) >= 3
    /\ Len(Get(simplified).points) < Len(Get(call).contour.points)

\* ---------------------------------------------------------------------------
\* Sampling on a boundary of fewer than 3 points
\* ---------------------------------------------------------------------------

\* A sampler returns: the step that leaves the loop of _add_interior_points
\* or of _generate_interior_points_poisson.
SamplerReturns == pc \in {"sampling", "grid"} /\ pc' = "sampled"

\* The boundary the returning sampler tested against has fewer than 3 points.
ShortTestBoundary == Len(Get(sampler).test_boundary) < 3

\* C21: when a sampler returns for a boundary of fewer than 3 points, it
\* returns the boundary points it was handed, unchanged and with no point
\* added, and without failing, whichever membership test it used.
C21_ShortBoundaryNoOp ==
    [][(SamplerReturns /\ ShortTestBoundary) =>
          /\ points_array' = Get(sampler).boundary_points
          /\ err' = "none"]_vars

\* The same for the samplers that test against the polygon.
C21_ShortBoundaryNoOpPath ==
    [][(SamplerReturns /\ ShortTestBoundary
            /\ Get(sampler).boundary_path # None) =>
          /\ points_array' = Get(sampler).boundary_points
          /\ err' = "none"]_vars

\* A sampler is about to return for a boundary of 2 points it tested with
\* the polygon, after at least one candidate.
C21_WitnessPath ==
    /\ pc \in {"sampling", "grid"}
    /\ ShortTestBoundary
    /\ Get(sampler).boundary_path # None
    /\ attempts + visited > 0
    /\ ENABLED (SampleReturn \/ GridReturn)

\* The sampler that tests against the image has accepted a candidate for a
\* boundary of 2 points.
C21_WitnessImage ==
    /\ pc = "sampling"
    /\ ShortTestBoundary
    /\ Get(sampler).use_image_testing
    /\ interior_points # <<>>

\* ---------------------------------------------------------------------------
\* simplify with tolerance 0
\* ---------------------------------------------------------------------------

\* Three cyclically consecutive points of pts lie on one line.
CollinearRun(pts) ==
    LET n == Len(pts)
    IN  \E i \in 1..n :
            Orient(pts[i], pts[(i % n) + 1], pts[((i + 1) % n) + 1]) = 0

\* s is t read cyclically from one of its points.
IsRotation(s, t) ==
    /\ Len(s) = Len(t)
    /\ \E k \in 0..(Len(t) - 1) :
           \A i \in 1..Len(t) : s[i] = t[((i - 1 + k) % Len(t)) + 1]

\* simplify has returned for tolerance 0 and a polygon of at least 3 points.
SimplifiedAtZero ==
    /\ ExtractorReturned("simplify")
    /\ Get(call).epsilon = 0
    /\ Len(Get(call).contour.points) >= 3

C22_WitnessCollinear ==
    /\ SimplifiedAtZero
    /\ CollinearRun(Get(call).contour.points)
    /\ Len(Get(simplified).points) < Len(Get(call).contour.points)

\* ---------------------------------------------------------------------------
\* simplify and the size of the tolerance
\* ---------------------------------------------------------------------------

\* C23: for every polygon and every pair of tolerances e1 < e2, simplify
\* with e2 returns at most as many points as simplify with e1.
C23_MonotonicReduction ==
    ExtractorReturned("simplify") =>
        \A e1 \in SimplifyEpsilons :
            e1 < Get(call).epsilon =>
                Get(simplified).num_points
                    <= simplify(Get(call).contour, e1).num_points

\* simplify has returned fewer points for a polygon of at least 3 points
\* than it returns for some smaller tolerance.
C23_WitnessFewer ==
    /\ ExtractorReturned("simplify")
    /\ Len(Get(call).contour.points) >= 3
    /\ \E e1 \in SimplifyEpsilons :
           /\ e1 < Get(call).epsilon
           /\ Get(simplified).num_points
                  < simplify(Get(call).contour, e1).num_points

\* ---------------------------------------------------------------------------
\* simplify only removes points
\* ---------------------------------------------------------------------------

\* s[i..] is a subsequence of t[j..].
RECURSIVE SubsequenceFrom(_, _, _, _)
SubsequenceFrom(s, t, i, j) ==
    IF i > Len(s) THEN TRUE
    ELSE IF j > Len(t) THEN FALSE
    ELSE IF s[i] = t[j] THEN SubsequenceFrom(s, t, i + 1, j + 1)
    ELSE SubsequenceFrom(s, t, i, j + 1)

IsSubsequence(s, t) == SubsequenceFrom(s, t, 1, 1)

\* t read cyclically from its point number k + 1.
Rotated(t, k) == [i \in 1..Len(t) |-> t[((i - 1 + k) % Len(t)) + 1]]

\* s is a subsequence of t read cyclically from one of its points.
IsCyclicSubsequence(s, t) ==
    IF t = <<>> THEN s = <<>>
    ELSE \E k \in 0..(Len(t) - 1) : IsSubsequence(s, Rotated(t, k))

\* The result of the call is the one its polygon and tolerance determine.
SimplifyDetermined ==
    simplified = Some(simplify(Get(call).contour, Get(call).epsilon))

GeneratorInStep ==
    meshed_logo # None =>
        /\ Get(meshed_logo).generator.canvas_size = Get(meshed_logo).canvas_size
        /\ Get(meshed_logo).generator.background_color
              = Get(meshed_logo).background_color

\* What a step on the MeshedLogo does to its settings: the constructor and
\* the setters store their arguments, a setter leaves the other setting, the
\* character size is the constructor's for good, and no other call changes
\* a setting.
SettingsStep ==
    /\ meshed_logo' # None
    /\ LET before == Get(meshed_logo)
           after == Get(meshed_logo')
           c == Get(logo_call')
       IN  /\ c.op = "__init__" =>
                 /\ after.canvas_size = c.canvas_size
                 /\ after.background_color = c.background_color
                 /\ after.generator.default_char_size = c.default_char_size
           /\ c.op = "set_canvas" =>
                 /\ after.canvas_size = <<c.width, c.height>>
                 /\ after.background_color = before.background_color
           /\ c.op = "set_background" =>
                 /\ after.background_color = c.color
                 /\ after.canvas_size = before.canvas_size
           /\ c.op # "__init__" =>
                 after.generator.default_char_size
                     = before.generator.default_char_size
           /\ c.op \in {"generate", "generate_multi"} => after = before

\* C25: after any sequence of set_canvas and set_background calls the
\* MeshedLogo holds the values set last (the constructor's when never set),
\* its generator holds the same canvas size and background colour and the
\* character size given at construction, and each setter leaves the other
\* setting unchanged.
C25_SettingsKept == [](GeneratorInStep) /\ [][SettingsStep]_vars

\* Both setters have been called on a MeshedLogo constructed with another
\* character size than the default, and changed both settings.
C25_Witness ==
    /\ meshed_logo # None
    /\ Get(logo_call).op = "set_background"
    /\ Get(meshed_logo).generator.default_char_size # DefaultCharSize
    /\ Get(meshed_logo).canvas_size = <<1000, 800>>
    /\ Get(meshed_logo).background_color = "#123456"

\* ---------------------------------------------------------------------------
\* generate and generate_multi
\* ---------------------------------------------------------------------------

\* C26: generate and generate_multi complete without raising and return the
\* output file they were given, for any text or component list and any
\* display arguments.
C26_ReturnsOutputFile ==
    (logo_call # None /\ Get(logo_call).op \in {"generate", "generate_multi"}) =>
        /\ Get(logo_call).outcome.raised = "none"
        /\ Get(logo_call).outcome.returned = Some(Get(logo_call).output_file)

\* generate has ended although create_logo returned for its text.
C26_WitnessRaised ==
    /\ logo_call # None
    /\ Get(logo_call).op = "generate"
    /\ Get(logo_call).text = "TEST"
    /\ Get(logo_call).outcome.raised = "TypeError"

\* ---------------------------------------------------------------------------
\* The grid of the jittered-grid sampler
\* ---------------------------------------------------------------------------

\* The grid sampler in its loops has laid a grid of side by side positions
\* from corner to corner of the bounding box of its boundary, and has tested
\* no more candidates than the grid has positions.
GridLaid(side) ==
    LET grid == Get(sampler)
    IN  /\ grid.grid_size = side
        /\ Len(grid.x_steps) = side /\ Len(grid.y_steps) = side
        /\ side >= 1 => /\ grid.x_steps[1] = grid.box.x_min
                        /\ grid.y_steps[1] = grid.box.y_min
        /\ side >= 2 => /\ grid.x_steps[side] = grid.box.x_max
                        /\ grid.y_steps[side] = grid.box.y_max
        /\ grid.box = get_bounding_box(grid.test_boundary)
        /\ visited <= side * side

\* The grid sampler never holds more accepted candidates than its target and
\* tests a candidate only while it holds fewer.
StopsAtTarget ==
    /\ [](pc = "grid" => Len(interior_points) <= Get(sampler).num_points)
    /\ [][(pc = "grid" /\ visited' > visited) =>
              Len(interior_points) < Get(sampler).num_points]_vars

\* C27: the jittered-grid sampler lays a grid of floor(sqrt(target_count))
\* positions a side over the bounding box, tests at most that many squared
\* candidates, and stops testing once target_count candidates are accepted.
C27_GridOfRootTarget ==
    /\ [](pc = "grid" => GridLaid(IntSqrt(Get(sampler).num_points)))
    /\ StopsAtTarget

\* C27, amended: the side of the grid is floor(sqrt(3 * target_count)).
C27_GridOfRootThreeTarget ==
    /\ [](pc = "grid" => GridLaid(IntSqrt(3 * Get(sampler).num_points)))
    /\ StopsAtTarget

\* The grid sampler has met a target of 2 at its third candidate of 4.
C27_Witness ==
    /\ pc = "grid"
    /\ Get(sampler).num_points = 2
    /\ Len(interior_points) = 2
    /\ visited = 3

\* The grid sampler has tested all 4 candidates of its grid without meeting
\* its target of 2.
C27_WitnessExhausted ==
    /\ pc = "grid"
    /\ Get(sampler).num_points = 2
    /\ Len(interior_points) < 2
    /\ visited = 4

\* ---------------------------------------------------------------------------
\* The polarity of the binarized raster
\* ---------------------------------------------------------------------------

\* The raster counts as 0/1-valued: no value above 1.
ZeroOne(img) == \A p \in Positions(img) : PixelAt(img, p) <= 1

\* The intensity of a pixel value on the scale 0..255.
Intensity(img, v) == IF ZeroOne(img) THEN 255 * v ELSE v

\* The mean intensity of the raster is above the midpoint 127.
MeanAboveMidpoint(img) ==
    SumOf({<<v[1], Intensity(img, v[2])>> : v \in Valued(img)})
        > 127 * Cardinality(Positions(img))

\* The binary image is 255 on the dark pixels of the raster and 0 on the
\* bright ones.
PolarityInverted(img, binary) ==
    \A p \in Positions(img) :
        PixelAt(binary, p) = IF Intensity(img, PixelAt(img, p)) <= 127
                             THEN 255 ELSE 0

\* The binary image is 255 on the bright pixels of the raster and 0 on the
\* dark ones.
PolarityKept(img, binary) ==
    \A p \in Positions(img) :
        PixelAt(binary, p) = IF Intensity(img, PixelAt(img, p)) > 127
                             THEN 255 ELSE 0

\* An extraction has binarized the raster of its call.
Binarized == call # None /\ Get(call).op # "simplify"

\* C28: binarization inverts the polarity of the raster exactly when its
\* mean intensity is above the midpoint, whether the raster is 0/1-valued or
\* 0..255-valued, and keeps it otherwise.
C28_InvertsWhenBright ==
    Binarized =>
        LET img == Get(call).image_input
        IN  IF MeanAboveMidpoint(img)
            THEN PolarityInverted(img, BinaryOfCall)
            ELSE PolarityKept(img, BinaryOfCall)

\* C28, amended: binarization always inverts a 0/1-valued raster, so that
\* its 0 pixels (the character) are 255 and its 1 pixels are 0; it inverts a
\* raster with a value above 1 exactly when its mean is above 127 and keeps
\* it otherwise.
C28_InvertsByKind ==
    Binarized =>
        LET img == Get(call).image_input
        IN  IF ZeroOne(img) \/ MeanAboveMidpoint(img)
            THEN PolarityInverted(img, BinaryOfCall)
            ELSE PolarityKept(img, BinaryOfCall)

\* An extraction has inverted a 0/1 raster whose mean is not above the
\* midpoint and traced its character.
C28_Witness ==
    /\ ExtractorReturned("extract")
    /\ ZeroOne(Get(call).image_input)
    /\ ~MeanAboveMidpoint(Get(call).image_input)
    /\ PolarityInverted(Get(call).image_input, BinaryOfCall)
    /\ contours # <<>>

\* An extraction has kept the polarity of a 0..255 raster with a bright
\* block on a dark ground.
C28_WitnessKept ==
    /\ ExtractorReturned("extract")
    /\ ~ZeroOne(Get(call).image_input)
    /\ ~MeanAboveMidpoint(Get(call).image_input)
    /\ PolarityKept(Get(call).image_input, BinaryOfCall)
    /\ contours # <<>>

\* An extraction has inverted a 0..255 raster with dark marks on a bright
\* ground.
C28_WitnessBright ==
    /\ ExtractorReturned("extract")
    /\ ~ZeroOne(Get(call).image_input)
    /\ MeanAboveMidpoint(Get(call).image_input)
    /\ PolarityInverted(Get(call).image_input, BinaryOfCall)
    /\ contours # <<>>

\* ---------------------------------------------------------------------------
\* Areas under refine_mesh, and repeated refinement
\* ---------------------------------------------------------------------------

\* Twice the total area of the triangles of m from number k on.
RECURSIVE TotalArea2From(_, _)
TotalArea2From(m, k) ==
    IF k > Len(m.triangles) THEN 0
    ELSE TriArea2(m, m.triangles[k]) + TotalArea2From(m, k + 1)

TotalArea2(m) == TotalArea2From(m, 1)

\* The input triangle whose centroid the last refine_mesh call added as
\* vertex n: the oversized triangles get their centroids in input order.
ParentOf(n) ==
    LET src == Get(source)
        big == Big(src, max_area)
        i == CHOOSE j \in big :
                 Cardinality({l \in big : l < j}) = n - src.num_vertices
    IN  src.triangles[i]

\* Every triangle the last call created has a third of the area of the
\* triangle it replaces, and the call kept the total area.
AreaInThirds ==
    refined # None =>
        /\ \A t \in Range(Get(refined).triangles) :
              t[3] \in NewVertices =>
                  3 * TriArea2(Get(refined), t) = TriArea2(Get(source), ParentOf(t[3]))
        /\ TotalArea2(Get(refined)) = TotalArea2(Get(source))

\* The mesh the caller holds has no triangle above the max_area of its calls.
Settled == mesh # None /\ passes >= 1 /\ Big(Latest, max_area) = {}

\* A call on a settled mesh returns a mesh equal to it.
SettledStays ==
    (Settled /\ passes' > passes) => (Get(refined') = Latest /\ Settled')

\* C29: each triangle refine_mesh creates has a third of the area of the
\* oversized triangle it replaces, so the total area is kept; and repeated
\* calls with one max_area > 0 lead to a mesh with no triangle above
\* max_area, after which a further call changes nothing.
C29_RefinementSettles ==
    /\ [](AreaInThirds)
    /\ [][SettledStays]_vars
    /\ (mesh # None) ~> Settled

\* Two passes were needed: the second call still found a triangle above
\* max_area and left none.
C29_Witness ==
    /\ Settled /\ passes = 2
    /\ Big(Get(source), max_area) # {}
    /\ Get(source).num_triangles > Get(mesh).num_triangles

\* A call on a settled mesh has returned.
C29_WitnessFixpoint ==
    /\ Settled /\ passes = 2
    /\ Big(Get(source), max_area) = {}
    /\ Get(source).num_triangles > Get(mesh).num_triangles
    /\ Get(refined) = Get(source)

\* ---------------------------------------------------------------- C30
\* out holds the points of inp in their order, each followed by factor - 1
\* points evenly spaced on the way to its cyclic successor, and ends with a
\* second copy of inp's first point.
RefinedFrom(inp, factor, out) ==
    LET n == Len(inp)
    IN  /\ Len(out) = n * factor + 1
        /\ out[Len(out)] = inp[1]
        /\ \A i \in 1..n :
              /\ out[(i - 1) * factor + 1] = inp[i]
              /\ \A j \in 1..(factor - 1) :
                    LET q == out[(i - 1) * factor + 1 + j]
                        p1 == inp[i]
                        p2 == inp[(i % n) + 1]
                    IN  /\ factor * q[1] = (factor - j) * p1[1] + j * p2[1]
                        /\ factor * q[2] = (factor - j) * p1[2] + j * p2[2]

\* The step of generate that follows the sampling, in a call that asked for
\* boundary refinement.
RefiningStep == pc = "sampled" /\ pc' = "idle" /\ boundary_refinement

==============================================================================
